---- MODULE Spec2Model ----
(***************************************************************************)
(* Risk & performance analytics engine of cerberusrisk                     *)
(* (api/src/services/risk_engine.py, api/src/services/gips_service.py).    *)
(*                                                                         *)
(* Numbers.  The engine computes in IEEE doubles; the model computes in    *)
(* fixed point on integers:                                                *)
(*   - a closing price is a positive integer (currency units);             *)
(*   - a log return is an integer number of 1/1000 (0.1 percent);          *)
(*   - a percentile is kept times 100 (1/100000), so that numpy's linear   *)
(*     interpolation between order statistics is exact;                    *)
(*   - a reported percentage (round(x * 100, 2)) is an integer number of   *)
(*     hundredths of a percent;                                            *)
(*   - sqrt(252) = 15.8745... is taken as 127/8 = 15.875;                  *)
(*   - a value that numpy yields as nan/inf is carried by a "finite" flag. *)
(***************************************************************************)
EXTENDS Integers, Sequences, FiniteSets, TLC

VARIABLES
    histories,   \* caller's price histories: ticker -> list of {date, close}
    weights,     \* caller's weight map, as the dict's (key, value) item list
    result,      \* what the most recent engine call returned
    rng,         \* state of numpy's process-wide generator (np.random)
    calls,       \* history: the random-drawing calls made so far, in order
    pc,          \* per request thread: position inside its engine call
    req,         \* per request thread: the request it serves
    loc,         \* per request thread: locals of the running call
    res          \* per request thread: the returned result

vars == <<histories, weights, result, rng, calls, pc, req, loc, res>>

(***************************************************************************)
(* Bounds of the model                                                     *)
(***************************************************************************)
MaxLen == 21            \* longest price history drawn
MaxSims == 2            \* largest Monte Carlo simulation count drawn
MaxHorizon == 2         \* largest Monte Carlo horizon drawn
MaxCalls == 3           \* longest sequence of random-drawing calls followed
RngStates == 16         \* number of states of the abstract generator

(***************************************************************************)
(* Program constants                                                       *)
(***************************************************************************)
MIN_OBS == 20           \* "if min_len < 20"
TRADING_DAYS == 252
MC_SEED == 42
SAMPLE_CAP == 500       \* min(500, simulations)
NUM_PORTFOLIOS == 8     \* calculate_composite_stats(..., num_portfolios=8)

(***************************************************************************)
(* Arithmetic helpers                                                      *)
(***************************************************************************)
Abs(x) == IF x < 0 THEN -x ELSE x

Min2(a, b) == IF a <= b THEN a ELSE b

Max2(a, b) == IF a >= b THEN a ELSE b

\* a / b rounded to the nearest integer, ties to even (Python's round and
\* IEEE round-to-nearest); b /= 0.
RoundDiv(a, b) ==
    LET n == IF b < 0 THEN -a ELSE a
        d == Abs(b)
        q == n \div d
        r == n % d
    IN  IF 2 * r < d THEN q
        ELSE IF 2 * r > d THEN q + 1
        ELSE IF q % 2 = 0 THEN q ELSE q + 1

RECURSIVE IsqrtRec(_, _, _)
IsqrtRec(x, lo, hi) ==
    IF lo >= hi THEN lo
    ELSE LET mid == (lo + hi + 1) \div 2
         IN  IF mid * mid <= x THEN IsqrtRec(x, mid, hi)
             ELSE IsqrtRec(x, lo, mid - 1)

\* np.sqrt on a non-negative fixed-point number: floor of the square root
Isqrt(x) == IsqrtRec(x, 0, 46340)

RECURSIVE SumSeq(_)
SumSeq(s) == IF s = <<>> THEN 0 ELSE Head(s) + SumSeq(Tail(s))

RECURSIVE MinSeq(_)
MinSeq(s) == IF Len(s) = 1 THEN s[1] ELSE Min2(Head(s), MinSeq(Tail(s)))

RECURSIVE MaxSeq(_)
MaxSeq(s) == IF Len(s) = 1 THEN s[1] ELSE Max2(Head(s), MaxSeq(Tail(s)))

RECURSIVE Insert(_, _)
Insert(x, s) ==
    IF s = <<>> THEN <<x>>
    ELSE IF x <= Head(s) THEN <<x>> \o s
    ELSE <<Head(s)>> \o Insert(x, Tail(s))

RECURSIVE SortAsc(_)
SortAsc(s) == IF s = <<>> THEN <<>> ELSE Insert(Head(s), SortAsc(Tail(s)))

\* Python slice s[a:b] for 0 <= a, b (0-based, end exclusive)
Slice(s, a, b) ==
    LET hi == Min2(b, Len(s))
    IN  IF a >= hi THEN <<>> ELSE SubSeq(s, a + 1, hi)

\* mutant of LastK: left-aligned, the first k items (s[:k])
LastK_first(s, k) == Slice(s, 0, k)

\* Python slice s[-k:] for k >= 1: the last k items (all of s if k > len)
LastK(s, k) == Slice(s, Max2(Len(s) - k, 0), Len(s))

\* np.log of a price, in 1/1000, to the nearest unit
LnTable == <<
    0, 693, 1099, 1386, 1609, 1792, 1946, 2079, 2197, 2303,
    2398, 2485, 2565, 2639, 2708, 2773, 2833, 2890, 2944, 2996,
    3045, 3091, 3135, 3178, 3219, 3258, 3296, 3332, 3367, 3401,
    3434, 3466, 3497, 3526, 3555, 3584, 3611, 3638, 3664, 3689,
    3714, 3738, 3761, 3784, 3807, 3829, 3850, 3871, 3892, 3912,
    3932, 3951, 3970, 3989, 4007, 4025, 4043, 4060, 4078, 4094,
    4111, 4127, 4143, 4159, 4174, 4190, 4205, 4220, 4234, 4248,
    4263, 4277, 4290, 4304, 4317, 4331, 4344, 4357, 4369, 4382,
    4394, 4407, 4419, 4431, 4443, 4454, 4466, 4477, 4489, 4500,
    4511, 4522, 4533, 4543, 4554, 4564, 4575, 4585, 4595, 4605,
    4615, 4625, 4635, 4644, 4654, 4663, 4673, 4682, 4691, 4700,
    4710, 4718, 4727, 4736, 4745, 4754, 4762, 4771, 4779, 4787,
    4796, 4804, 4812, 4820, 4828, 4836, 4844, 4852, 4860, 4868 >>

Ln(p) == LnTable[p]

\* mutant of Percentile100: the percentile counted from the top (100 - q)
Percentile100_upper(s, q) ==
    LET srt == SortAsc(s)
        n == Len(s)
        pos == (100 - q) * (n - 1)
        lo == pos \div 100
        fr == pos % 100
    IN  IF fr = 0 THEN 100 * srt[lo + 1]
        ELSE 100 * srt[lo + 1] + fr * (srt[lo + 2] - srt[lo + 1])

\* np.percentile(s, q), default linear interpolation, times 100:
\* position q/100 * (n - 1) between the order statistics around it.
Percentile100(s, q) ==
    LET srt == SortAsc(s)
        n == Len(s)
        pos == q * (n - 1)
        lo == pos \div 100
        fr == pos % 100
    IN  IF fr = 0 THEN 100 * srt[lo + 1]
        ELSE 100 * srt[lo + 1] + fr * (srt[lo + 2] - srt[lo + 1])

(***************************************************************************)
(* Inputs: price histories and weight maps                                 *)
(***************************************************************************)
CASH == "CASH"

Stocks == {"AAA", "BBB"}

\* closing price of a stock on trading day d (1 .. MaxLen) under a market
\* pattern; every history ends on day MaxLen (the most recent close).
Price(pat, d) ==
    CASE pat = "flat"  -> 100
      [] pat = "rise"  -> 100 + d
      [] pat = "fall"  -> 125 - d
      [] pat = "zig"   -> 100 + ((d * d) % 7)
      [] pat = "crash" -> IF d <= MaxLen - 3 THEN 100 ELSE 20

History(pat, len) ==
    [k \in 1..len |-> [date |-> MaxLen - len + k,
                       close |-> Price(pat, MaxLen - len + k)]]

HistoryLens == {MIN_OBS - 1, MIN_OBS, MaxLen}

\* <<>> stands for a ticker whose history is None, empty or absent: all
\* three make histories.get(t) falsy.
HistoryPool(t) ==
    {<<>>} \cup
    {History(pat, len) :
        pat \in (IF t = "AAA" THEN {"flat", "rise", "zig", "crash"}
                 ELSE {"flat", "zig", "fall"}),
        len \in HistoryLens}

KeyOrders ==
    { <<>>, <<CASH>>, <<"AAA">>, <<"BBB">>, <<"AAA", CASH>>,
      <<"AAA", "BBB">>, <<"BBB", "AAA">>, <<CASH, "AAA", "BBB">> }

WeightValues(t) == IF t = CASH THEN {2} ELSE {-1, 1, 2}

\* weight maps: one (ticker, weight) item per key, in the dict's key order
WeightMaps ==
    UNION { { [i \in 1..Len(ks) |-> [ticker |-> ks[i], weight |-> f[i]]] :
                f \in { g \in [1..Len(ks) -> {-1, 1, 2}] :
                          \A i \in 1..Len(ks) : g[i] \in WeightValues(ks[i]) } } :
            ks \in KeyOrders }

(***************************************************************************)
(* Return Series Builder                                                   *)
(***************************************************************************)
\* the value of a call that produced no array
NoReturns == [none |-> TRUE, finite |-> TRUE, r |-> <<>>]

\* np.log(prices[1:] / prices[:-1])
calculate_returns(prices) ==
    [i \in 1..(Len(prices) - 1) |-> Ln(prices[i + 1]) - Ln(prices[i])]

\* mutant of EligibleItems: the history check forgotten
EligibleItems_any_history(h, w) ==
    SelectSeq(w, LAMBDA it : it.ticker # CASH)

\* [t for t in weights.keys() if t != "CASH" and histories.get(t)], kept as
\* the (ticker, weight) items so that weights[ticker] is the item's weight
EligibleItems(h, w) ==
    SelectSeq(w, LAMBDA it : it.ticker # CASH /\ h[it.ticker] # <<>>)

\* min(len(histories[t]) for t in tickers)
MinLen(h, items) == MinSeq([i \in 1..Len(items) |-> Len(h[items[i].ticker])])

\* [d["close"] for d in histories[ticker][-min_len:]]
AlignedPrices(hist, min_len) ==
    LET win == LastK(hist, min_len)
    IN  [k \in 1..Len(win) |-> win[k].close]

\* weights_arr / weights_arr.sum(): the quotients w[i] / den are kept exact
\* as numerators over one denominator; den = 0 is numpy's division by zero.
NormalizeWeights(weight_list) ==
    [num |-> weight_list, den |-> SumSeq(weight_list)]

\* np.dot(weights_arr, returns_matrix): one weighted sum per day; with a zero
\* denominator every weight is inf or nan and so is the product.
DotReturns(weights_arr, returns_matrix) ==
    LET n == Len(returns_matrix[1])
        k == Len(returns_matrix)
    IN  IF weights_arr.den = 0
        THEN [none |-> FALSE, finite |-> FALSE, r |-> [d \in 1..n |-> 0]]
        ELSE [none |-> FALSE, finite |-> TRUE,
              r |-> [d \in 1..n |->
                       RoundDiv(SumSeq([i \in 1..k |->
                                    weights_arr.num[i] * returns_matrix[i][d]]),
                                weights_arr.den)]]

\* the frame of a call that returned before building anything
EmptyFrame ==
    [tickers |-> <<>>, min_len |-> 0, prices |-> <<>>, dates |-> <<>>,
     weights_arr |-> [num |-> <<>>, den |-> 0], ret |-> NoReturns]

\* RiskEngine.calculate_portfolio_returns: the locals of the call and, in
\* ret, the returned array (none for None)
calculate_portfolio_returns(h, w) ==
    LET items == EligibleItems(h, w)
        tickers == [i \in 1..Len(items) |-> items[i].ticker]
    IN  IF tickers = <<>> THEN EmptyFrame
        ELSE LET min_len == MinLen(h, items)
             IN  IF min_len < MIN_OBS
                 THEN [EmptyFrame EXCEPT !.tickers = tickers,
                                         !.min_len = min_len]
                 ELSE LET prices == [i \in 1..Len(items) |->
                                       AlignedPrices(h[tickers[i]], min_len)]
                          returns_matrix == [i \in 1..Len(items) |->
                                               calculate_returns(prices[i])]
                          weight_list == [i \in 1..Len(items) |-> items[i].weight]
                          weights_arr == NormalizeWeights(weight_list)
                      IN  [tickers |-> tickers, min_len |-> min_len,
                           prices |-> prices, dates |-> <<>>,
                           weights_arr |-> weights_arr,
                           ret |-> DotReturns(weights_arr, returns_matrix)]

\* RiskEngine._get_aligned_returns_with_dates: as above, with the dates of
\* the first ticker; ret and dates are the returned pair
get_aligned_returns_with_dates(h, w) ==
    LET items == EligibleItems(h, w)
        tickers == [i \in 1..Len(items) |-> items[i].ticker]
    IN  IF tickers = <<>> THEN EmptyFrame
        ELSE LET min_len == MinLen(h, items)
             IN  IF min_len < MIN_OBS
                 THEN [EmptyFrame EXCEPT !.tickers = tickers,
                                         !.min_len = min_len]
                 ELSE LET first == LastK(h[tickers[1]], min_len)
                          dates == Tail([k \in 1..Len(first) |-> first[k].date])
                          prices == [i \in 1..Len(items) |->
                                       AlignedPrices(h[tickers[i]], min_len)]
                          returns_matrix == [i \in 1..Len(items) |->
                                               calculate_returns(prices[i])]
                          weight_list == [i \in 1..Len(items) |-> items[i].weight]
                          weights_arr == NormalizeWeights(weight_list)
                      IN  [tickers |-> tickers, min_len |-> min_len,
                           prices |-> prices, dates |-> dates,
                           weights_arr |-> weights_arr,
                           ret |-> DotReturns(weights_arr, returns_matrix)]

\* RiskEngine.calculate_risk_contributions up to the normalised weights
\* (the covariance decomposition that follows reads weights_arr and
\* returns_matrix only); ret.none stands for the early "return []"
risk_contribution_weights(h, w) ==
    LET items == EligibleItems(h, w)
        tickers == [i \in 1..Len(items) |-> items[i].ticker]
    IN  IF tickers = <<>> THEN EmptyFrame
        ELSE LET min_len == MinLen(h, items)
             IN  IF min_len < MIN_OBS
                 THEN [EmptyFrame EXCEPT !.tickers = tickers,
                                         !.min_len = min_len]
                 ELSE LET prices == [i \in 1..Len(items) |->
                                       AlignedPrices(h[tickers[i]], min_len)]
                          weight_list == [i \in 1..Len(items) |-> items[i].weight]
                          weights_arr == NormalizeWeights(weight_list)
                      IN  [tickers |-> tickers, min_len |-> min_len,
                           prices |-> prices, dates |-> <<>>,
                           weights_arr |-> weights_arr,
                           ret |-> [none |-> FALSE,
                                    finite |-> weights_arr.den # 0,
                                    r |-> <<>>]]

(***************************************************************************)
(* Core Risk Metrics                                                       *)
(***************************************************************************)
\* np.cumprod(1 + returns), in 1/10000
RECURSIVE CumProd(_)
CumProd(r) ==
    IF r = <<>> THEN <<>>
    ELSE LET n == Len(r)
             prev == CumProd(SubSeq(r, 1, n - 1))
             last == IF n = 1 THEN 10000 ELSE prev[n - 1]
         IN  Append(prev, RoundDiv(last * (1000 + r[n]), 1000))

\* np.maximum.accumulate
RECURSIVE MaxAccumulate(_)
MaxAccumulate(c) ==
    IF c = <<>> THEN <<>>
    ELSE LET n == Len(c)
             prev == MaxAccumulate(SubSeq(c, 1, n - 1))
         IN  Append(prev, IF n = 1 THEN c[1] ELSE Max2(prev[n - 1], c[n]))

\* (cumulative - peak) / peak as a percentage in hundredths; ok is FALSE
\* where the peak is 0 (numpy: nan or inf)
DrawdownCurve(r) ==
    LET cumulative == CumProd(r)
        peak == MaxAccumulate(cumulative)
    IN  [ok |-> \A i \in 1..Len(r) : peak[i] # 0,
         d |-> [i \in 1..Len(r) |->
                  IF peak[i] = 0 THEN 0
                  ELSE RoundDiv((cumulative[i] - peak[i]) * 10000, peak[i])]]

\* np.mean, to the nearest 1/1000
NpMean(s) == RoundDiv(SumSeq(s), Len(s))

\* np.std (population standard deviation), in 1/1000
NpStd(s) ==
    LET m == NpMean(s)
    IN  Isqrt(SumSeq([i \in 1..Len(s) |-> (s[i] - m) * (s[i] - m)]) \div Len(s))

\* RiskEngine.calculate_risk_metrics on a non-empty return array
calculate_risk_metrics(returns) ==
    LET r == returns.r
        n == Len(r)
        mean == NpMean(r)
        std == NpStd(r)
        p5 == Percentile100(r, 5)
        p1 == Percentile100(r, 1)
        tail == SelectSeq(r, LAMBDA x : 100 * x <= p5)
        dd == DrawdownCurve(r)
    IN  [finite |-> returns.finite,
         dd_finite |-> returns.finite /\ dd.ok,
         var_95 |-> RoundDiv(-p5 * 127, 80),
         var_99 |-> RoundDiv(-p1 * 127, 80),
         cvar_95 |-> RoundDiv(-SumSeq(tail) * 1270, 8 * Len(tail)),
         volatility |-> RoundDiv(std * 1270, 8),
         sharpe |-> IF std > 0
                    THEN RoundDiv((mean * TRADING_DAYS - 50) * 800, std * 127)
                    ELSE 0,
         max_drawdown |-> -MinSeq(dd.d),
         current_drawdown |-> IF Len(dd.d) > 0 THEN -dd.d[Len(dd.d)] ELSE 0]

(***************************************************************************)
(* Rolling & Backtesting Analytics                                         *)
(***************************************************************************)
NoSeries == [none |-> TRUE]

\* mutant of RollingWindow: the window shifted by one (returns[i-window+1 : i+1])
RollingWindow_shifted(returns, i, window) == Slice(returns, i - window + 1, i + 1)

\* window_returns = returns[i - window : i] of the rolling loop
RollingWindow(returns, i, window) == Slice(returns, i - window, i)

\* mutant of BacktestWindow: the window includes the realized return i
BacktestWindow_lookahead(returns, i, window) ==
    Slice(returns, i - window + 1, i + 1)

\* window_returns = returns[i - window : i] of the backtest loop
BacktestWindow(returns, i, window) == Slice(returns, i - window, i)

\* RiskEngine.calculate_rolling_metrics, window >= 1
calculate_rolling_metrics(h, w, window) ==
    LET fr == get_aligned_returns_with_dates(h, w)
        returns == fr.ret.r
        dates == fr.dates
        n == Len(returns)
    IN  IF fr.ret.none \/ n < window THEN NoSeries
        ELSE LET is == [j \in 1..(n + 1 - window) |-> window + j - 1]
                 window_returns(i) == RollingWindow(returns, i, window)
                 drawdown == DrawdownCurve(returns)
             IN  [none |-> FALSE,
                  finite |-> fr.ret.finite,
                  dd_finite |-> fr.ret.finite /\ drawdown.ok,
                  dates |-> Slice(dates, window - 1, Len(dates)),
                  rolling_var_95 |->
                      [j \in 1..Len(is) |->
                         RoundDiv(-Percentile100(window_returns(is[j]), 5) * 127, 80)],
                  rolling_volatility |->
                      [j \in 1..Len(is) |->
                         RoundDiv(NpStd(window_returns(is[j])) * 1270, 8)],
                  drawdown_series |->
                      Slice(drawdown.d, window - 1, Len(drawdown.d))]

\* RiskEngine.backtest_var, window >= 1, confidence in whole percent
backtest_var(h, w, window, confidence) ==
    LET fr == get_aligned_returns_with_dates(h, w)
        returns == fr.ret.r
        dates == fr.dates
        n == Len(returns)
    IN  IF fr.ret.none \/ n < window + 1 THEN NoSeries
        ELSE LET percentile == 100 - confidence
                 is == [j \in 1..(n - window) |-> window + j - 1]
                 window_returns(i) == BacktestWindow(returns, i, window)
                 \* round(var * 100, 2), var = -np.percentile(...)
                 predicted_var ==
                     [j \in 1..Len(is) |->
                        RoundDiv(-Percentile100(window_returns(is[j]), percentile), 10)]
                 \* round(returns[i] * 100, 2)
                 realized == [j \in 1..Len(is) |-> 10 * returns[is[j] + 1]]
                 backtest_dates == [j \in 1..Len(is) |-> dates[is[j] + 1]]
                 breaches ==
                     IF fr.ret.finite
                     THEN Cardinality({j \in 1..Len(is) :
                                          realized[j] < -predicted_var[j]})
                     ELSE 0
             IN  [none |-> FALSE,
                  finite |-> fr.ret.finite,
                  dates |-> backtest_dates,
                  predicted_var |-> predicted_var,
                  realized_returns |-> realized,
                  breaches |-> breaches,
                  breach_rate |-> IF Len(realized) > 0
                                  THEN RoundDiv(breaches * 10000, Len(realized))
                                  ELSE 0]

(***************************************************************************)
(* numpy process-wide random generator, module np.random                   *)
(*                                                                         *)
(* The Mersenne Twister is abstracted to a generator with RngStates        *)
(* states: every draw is a function of the current state and moves the     *)
(* generator to the next state; seeding puts it in a state that depends on *)
(* the seed only.                                                          *)
(***************************************************************************)
RngNext(s) == (5 * s + 3) % RngStates

\* mutant of np_random_seed: the generator is not reseeded
np_random_seed_skipped(s, seed) == s

\* np.random.seed(seed): the new state, whatever the old one
np_random_seed(s, seed) == seed % RngStates

\* one standard normal variate in 1/1000, read off the generator state
ZTable == <<-1645, -674, 0, 674, 1645>>

StdNormal(s) == ZTable[(s % 5) + 1]

\* np.random.normal(0, 1, size): k variates and the state after them
RECURSIVE np_random_normal(_, _)
np_random_normal(s, k) ==
    IF k = 0 THEN [vals |-> <<>>, state |-> s]
    ELSE LET rest == np_random_normal(RngNext(s), k - 1)
         IN  [vals |-> <<StdNormal(s)>> \o rest.vals, state |-> rest.state]

\* Fisher-Yates shuffle of perm[1..i], one draw per position, from the top
RECURSIVE Shuffle(_, _, _)
Shuffle(perm, i, s) ==
    IF i <= 1 THEN [perm |-> perm, state |-> s]
    ELSE LET j == (s % i) + 1
             swapped == [perm EXCEPT ![i] = perm[j], ![j] = perm[i]]
         IN  Shuffle(swapped, i - 1, RngNext(s))

\* np.random.choice(n, size, replace=False): the first size entries of a
\* random permutation of 0 .. n-1
np_random_choice(s, n, size) ==
    LET sh == Shuffle([i \in 1..n |-> i - 1], n, s)
    IN  [idx |-> SubSeq(sh.perm, 1, size), state |-> sh.state]

\* one Gamma(2) variate in 1/1000, read off the generator state
GammaTable == <<500, 1500, 2500, 4000>>

\* np.random.dirichlet(alpha): one gamma variate per component, normalised
\* by their sum when used (g[i] / total)
RECURSIVE GammaDraws(_, _)
GammaDraws(s, k) ==
    IF k = 0 THEN [vals |-> <<>>, state |-> s]
    ELSE LET rest == GammaDraws(RngNext(s), k - 1)
         IN  [vals |-> <<GammaTable[(s % 4) + 1]>> \o rest.vals,
              state |-> rest.state]

np_random_dirichlet(s, k) ==
    LET g == GammaDraws(s, k)
    IN  [g |-> g.vals, total |-> SumSeq(g.vals), state |-> g.state]

(***************************************************************************)
(* Monte Carlo Simulator                                                   *)
(***************************************************************************)
RECURSIVE Pow2(_)
Pow2(k) == IF k = 0 THEN 1 ELSE 2 * Pow2(k - 1)

\* 100 * np.exp(x) in hundredths, x in 1/1000: x = k ln 2 + f with
\* |f| <= ln(2)/2, exp(f) by its Taylor polynomial of degree 3
ExpBase100(x) ==
    LET k == RoundDiv(x, 693)
        f == x - 693 * k
        poly == 10000 + 10 * f + RoundDiv(f * f, 200)
                      + RoundDiv(f * f * f, 600000)
    IN  IF k >= 0 THEN poly * Pow2(k) ELSE RoundDiv(poly, Pow2(-k))

RECURSIVE CumSum(_)
CumSum(s) ==
    IF s = <<>> THEN <<>>
    ELSE LET n == Len(s)
             prev == CumSum(SubSeq(s, 1, n - 1))
         IN  Append(prev, (IF n = 1 THEN 0 ELSE prev[n - 1]) + s[n])

\* lines 497-503: the historical returns and the drift and volatility
\* estimated from them; none when there is no return series
mc_estimate(h, w) ==
    LET returns == calculate_portfolio_returns(h, w).ret
    IN  IF returns.none THEN [none |-> TRUE, finite |-> TRUE, mu |-> 0, sigma |-> 0]
        ELSE [none |-> FALSE, finite |-> returns.finite,
              mu |-> NpMean(returns.r), sigma |-> NpStd(returns.r)]

\* lines 508-519: GBM paths from the shocks (row-major, simulations x
\* horizon), each path prefixed with the day-0 value 100
mc_paths(est, shocks, simulations, horizon) ==
    [p \in 1..simulations |->
        LET log_returns ==
                [t \in 1..horizon |->
                    RoundDiv(2000 * est.mu - est.sigma * est.sigma
                               + 2 * est.sigma * shocks[(p - 1) * horizon + t],
                             2000)]
            cumulative_returns == CumSum(log_returns)
        IN  <<10000>> \o [t \in 1..horizon |-> ExpBase100(cumulative_returns[t])]]

\* round(float(np.percentile(column, q)), 2)
Band(paths, day, q) ==
    RoundDiv(Percentile100([p \in 1..Len(paths) |-> paths[p][day]], q), 100)

\* 100 - np.mean(terminal_values[terminal_values <= np.percentile(.., q)])
TerminalCVaR(terminal_values, q) ==
    LET cut == Percentile100(terminal_values, q)
        tail == SelectSeq(terminal_values, LAMBDA v : 100 * v <= cut)
    IN  RoundDiv(10000 * Len(tail) - SumSeq(tail), Len(tail))

\* lines 521-562: the MonteCarloResult built from the paths and the indices
\* of the sampled terminal values
mc_result(est, paths, sample_indices, simulations, horizon) ==
    LET terminal_values == [p \in 1..simulations |-> paths[p][horizon + 1]]
        band(q) == [d \in 1..(horizon + 1) |-> Band(paths, d, q)]
    IN  [none |-> FALSE,
         finite |-> est.finite,
         simulations |-> simulations,
         horizon |-> horizon,
         var_95 |-> RoundDiv(1000000 - Percentile100(terminal_values, 5), 100),
         var_99 |-> RoundDiv(1000000 - Percentile100(terminal_values, 1), 100),
         cvar_95 |-> TerminalCVaR(terminal_values, 5),
         cvar_99 |-> TerminalCVaR(terminal_values, 1),
         fan_chart |-> [days |-> [d \in 1..(horizon + 1) |-> d - 1],
                        p1 |-> band(1), p5 |-> band(5), p25 |-> band(25),
                        p50 |-> band(50), p75 |-> band(75), p95 |-> band(95),
                        p99 |-> band(99)],
         terminal_distribution |->
             [k \in 1..Len(sample_indices) |->
                 terminal_values[sample_indices[k] + 1]]]

\* RiskEngine.calculate_monte_carlo run without interruption on generator
\* state s: the returned result and the state the generator is left in
calculate_monte_carlo(h, w, simulations, horizon, s) ==
    LET est == mc_estimate(h, w)
    IN  IF est.none THEN [ret |-> [none |-> TRUE], state |-> s]
        ELSE LET s1 == np_random_seed(s, MC_SEED)
                 random_shocks == np_random_normal(s1, simulations * horizon)
                 paths == mc_paths(est, random_shocks.vals, simulations, horizon)
                 sample == np_random_choice(random_shocks.state, simulations,
                                            Min2(SAMPLE_CAP, simulations))
             IN  [ret |-> mc_result(est, paths, sample.idx, simulations, horizon),
                  state |-> sample.state]

(***************************************************************************)
(* GIPS composite statistics (simulated peers)                             *)
(***************************************************************************)
\* lines 190-194: the simulated peer returns followed by the portfolio's
\* own; portfolio_return and the results in hundredths of a percent
cs_all_returns(portfolio_return, normals) ==
    LET sd == RoundDiv(Abs(portfolio_return), 10) + 50
    IN  [i \in 1..Len(normals) |->
            portfolio_return + RoundDiv(sd * normals[i], 1000)]
        \o <<portfolio_return>>

\* lines 196-215: the GIPSCompositeStats built from the returns and the
\* simulated AUM shares (percentages of AUM in tenths of a percent)
cs_result(all_returns, aum, num_portfolios) ==
    LET dispersion == IF num_portfolios >= 6 THEN NpStd(all_returns) ELSE 0
        desc == [i \in 1..Len(aum.g) |->
                    SortAsc(aum.g)[Len(aum.g) + 1 - i]]
    IN  [num_portfolios |-> num_portfolios,
         has_dispersion |-> dispersion # 0,
         dispersion |-> dispersion,
         high_return |-> MaxSeq(all_returns),
         low_return |-> MinSeq(all_returns),
         median_return |-> RoundDiv(Percentile100(all_returns, 50), 100),
         largest_portfolio_pct |-> RoundDiv(desc[1] * 1000, aum.total),
         top5_concentration_pct |->
             IF num_portfolios >= 5
             THEN RoundDiv(SumSeq(SubSeq(desc, 1, 5)) * 1000, aum.total)
             ELSE 1000,
         portfolio_returns |-> all_returns]

\* GIPSService.calculate_composite_stats run without interruption on
\* generator state s
calculate_composite_stats(portfolio_return, num_portfolios, s) ==
    LET s1 == np_random_seed(s, MC_SEED)
        simulated == np_random_normal(s1, num_portfolios - 1)
        s2 == np_random_seed(simulated.state, MC_SEED)
        aum == np_random_dirichlet(s2, num_portfolios)
    IN  [ret |-> cs_result(cs_all_returns(portfolio_return, simulated.vals),
                           aum, num_portfolios),
         state |-> aum.state]

(***************************************************************************)
(* The engine as a state machine: one action per engine call               *)
(***************************************************************************)
Threads == {"t1", "t2"}

RollingWindows == {2, MIN_OBS}

BacktestWindows == {2, MIN_OBS - 1}

Confidences == {95, 99}

Histories ==
    { h \in [Stocks -> UNION {HistoryPool(t) : t \in Stocks}] :
        \A t \in Stocks : h[t] \in HistoryPool(t) }

NoCall == [op |-> "none"]

InitIdle ==
    /\ calls = <<>>
    /\ pc = [t \in Threads |-> "idle"]
    /\ req = [t \in Threads |-> NoCall]
    /\ loc = [t \in Threads |-> NoCall]
    /\ res = [t \in Threads |-> NoCall]

Init ==
    /\ histories \in Histories
    /\ weights \in WeightMaps
    /\ result = NoCall
    /\ rng = 0
    /\ InitIdle

CalculatePortfolioReturns ==
    /\ result' = [op |-> "portfolio_returns",
                  frame |-> calculate_portfolio_returns(histories, weights)]
    /\ UNCHANGED <<histories, weights, rng, calls, pc, req, loc, res>>

GetAlignedReturnsWithDates ==
    /\ result' = [op |-> "aligned_returns",
                  frame |-> get_aligned_returns_with_dates(histories, weights)]
    /\ UNCHANGED <<histories, weights, rng, calls, pc, req, loc, res>>

RiskContributionWeights ==
    /\ result' = [op |-> "risk_contributions",
                  frame |-> risk_contribution_weights(histories, weights)]
    /\ UNCHANGED <<histories, weights, rng, calls, pc, req, loc, res>>

\* calculate_comparative_risk, portfolio side: the metrics of the portfolio
\* return series, None without one
CalculateRiskMetrics ==
    /\ LET fr == calculate_portfolio_returns(histories, weights)
       IN  result' = [op |-> "risk_metrics",
                      none |-> fr.ret.none,
                      returns |-> fr.ret.r,
                      metrics |-> IF fr.ret.none THEN NoCall
                                  ELSE calculate_risk_metrics(fr.ret)]
    /\ UNCHANGED <<histories, weights, rng, calls, pc, req, loc, res>>

CalculateRollingMetrics ==
    /\ \E window \in RollingWindows :
          result' = [op |-> "rolling", window |-> window,
                     aligned |-> get_aligned_returns_with_dates(histories, weights),
                     out |-> calculate_rolling_metrics(histories, weights, window)]
    /\ UNCHANGED <<histories, weights, rng, calls, pc, req, loc, res>>

BacktestVar ==
    /\ \E window \in BacktestWindows, confidence \in Confidences :
          result' = [op |-> "backtest", window |-> window,
                     confidence |-> confidence,
                     aligned |-> get_aligned_returns_with_dates(histories, weights),
                     out |-> backtest_var(histories, weights, window, confidence)]
    /\ UNCHANGED <<histories, weights, rng, calls, pc, req, loc, res>>

Next ==
    \/ CalculatePortfolioReturns
    \/ GetAlignedReturnsWithDates
    \/ RiskContributionWeights
    \/ CalculateRiskMetrics
    \/ CalculateRollingMetrics
    \/ BacktestVar

Spec == Init /\ [][Next]_vars

(***************************************************************************)
(* Calls that draw random numbers, one after the other                     *)
(***************************************************************************)
\* the generator state at process start comes from OS entropy
EntropyStates == {0, RngStates - 1}

SimInputs ==
    { [h |-> [AAA |-> History("zig", MaxLen), BBB |-> <<>>],
       w |-> <<[ticker |-> "AAA", weight |-> 1]>>],
      [h |-> [AAA |-> History("crash", MIN_OBS), BBB |-> History("fall", MaxLen)],
       w |-> <<[ticker |-> "AAA", weight |-> 2], [ticker |-> "BBB", weight |-> -1]>>],
      [h |-> [AAA |-> History("zig", MIN_OBS - 1), BBB |-> <<>>],
       w |-> <<[ticker |-> "AAA", weight |-> 1], [ticker |-> CASH, weight |-> 2]>>] }

\* annualised gross return handed to calculate_composite_stats, in
\* hundredths of a percent
CompositeReturns == {1234}

InitMC ==
    /\ \E in \in SimInputs : histories = in.h /\ weights = in.w
    /\ result = NoCall
    /\ rng \in EntropyStates
    /\ InitIdle

MonteCarlo ==
    /\ Len(calls) < MaxCalls
    /\ \E simulations \in 1..MaxSims, horizon \in 1..MaxHorizon :
          LET out == calculate_monte_carlo(histories, weights,
                                           simulations, horizon, rng)
              call == [op |-> "monte_carlo", simulations |-> simulations,
                       horizon |-> horizon, out |-> out.ret]
          IN  /\ result' = call
              /\ calls' = Append(calls, call)
              /\ rng' = out.state
    /\ UNCHANGED <<histories, weights, pc, req, loc, res>>

CompositeStats ==
    /\ Len(calls) < MaxCalls
    /\ \E portfolio_return \in CompositeReturns :
          LET out == calculate_composite_stats(portfolio_return,
                                               NUM_PORTFOLIOS, rng)
              call == [op |-> "composite_stats",
                       portfolio_return |-> portfolio_return, out |-> out.ret]
          IN  /\ result' = call
              /\ calls' = Append(calls, call)
              /\ rng' = out.state
    /\ UNCHANGED <<histories, weights, pc, req, loc, res>>

NextMC == MonteCarlo \/ CompositeStats

SpecMC == InitMC /\ [][NextMC]_vars

(***************************************************************************)
(* Concurrent requests: FastAPI runs the synchronous endpoints on a thread *)
(* pool; a thread can be pre-empted between any two np.random calls, each  *)
(* of which is atomic on the shared generator.                             *)
(***************************************************************************)
Requests ==
    { [op |-> "monte_carlo", simulations |-> n, horizon |-> hz] :
        n \in 1..MaxSims, hz \in 1..MaxHorizon }
    \cup { [op |-> "composite_stats", portfolio_return |-> x] :
             x \in CompositeReturns }

InitConc ==
    /\ \E in \in SimInputs : histories = in.h /\ weights = in.w
    /\ result = NoCall
    /\ rng \in EntropyStates
    /\ InitIdle

\* a request arrives and is handed to a free worker thread
Receive(t) ==
    /\ pc[t] = "idle"
    /\ \E r \in Requests :
          /\ req' = [req EXCEPT ![t] = r]
          /\ pc' = [pc EXCEPT ![t] = IF r.op = "monte_carlo"
                                     THEN "mc_estimate" ELSE "cs_seed1"]
    /\ UNCHANGED <<histories, weights, result, rng, calls, loc, res>>

\* calculate_monte_carlo, lines 497-503
McEstimate(t) ==
    /\ pc[t] = "mc_estimate"
    /\ LET est == mc_estimate(histories, weights)
       IN  IF est.none
           THEN /\ res' = [res EXCEPT ![t] = [none |-> TRUE]]
                /\ pc' = [pc EXCEPT ![t] = "done"]
                /\ loc' = loc
           ELSE /\ loc' = [loc EXCEPT ![t] = [est |-> est]]
                /\ pc' = [pc EXCEPT ![t] = "mc_seed"]
                /\ res' = res
    /\ UNCHANGED <<histories, weights, result, rng, calls, req>>

\* line 506: np.random.seed(42)
McSeed(t) ==
    /\ pc[t] = "mc_seed"
    /\ rng' = np_random_seed(rng, MC_SEED)
    /\ pc' = [pc EXCEPT ![t] = "mc_normal"]
    /\ UNCHANGED <<histories, weights, result, calls, req, loc, res>>

\* lines 508-519: np.random.normal and the paths built from it
McNormal(t) ==
    /\ pc[t] = "mc_normal"
    /\ LET d == np_random_normal(rng, req[t].simulations * req[t].horizon)
       IN  /\ rng' = d.state
           /\ loc' = [loc EXCEPT ![t] =
                        [est |-> loc[t].est,
                         paths |-> mc_paths(loc[t].est, d.vals,
                                            req[t].simulations, req[t].horizon)]]
    /\ pc' = [pc EXCEPT ![t] = "mc_choice"]
    /\ UNCHANGED <<histories, weights, result, calls, req, res>>

\* lines 521-562: np.random.choice and the result
McChoice(t) ==
    /\ pc[t] = "mc_choice"
    /\ LET sample == np_random_choice(rng, req[t].simulations,
                                      Min2(SAMPLE_CAP, req[t].simulations))
       IN  /\ rng' = sample.state
           /\ res' = [res EXCEPT ![t] =
                        mc_result(loc[t].est, loc[t].paths, sample.idx,
                                  req[t].simulations, req[t].horizon)]
    /\ pc' = [pc EXCEPT ![t] = "done"]
    /\ UNCHANGED <<histories, weights, result, calls, req, loc>>

\* calculate_composite_stats, line 189: np.random.seed(42)
CsSeed1(t) ==
    /\ pc[t] = "cs_seed1"
    /\ rng' = np_random_seed(rng, MC_SEED)
    /\ pc' = [pc EXCEPT ![t] = "cs_normal"]
    /\ UNCHANGED <<histories, weights, result, calls, req, loc, res>>

\* lines 190-196: np.random.normal and the returns built from it
CsNormal(t) ==
    /\ pc[t] = "cs_normal"
    /\ LET d == np_random_normal(rng, NUM_PORTFOLIOS - 1)
       IN  /\ rng' = d.state
           /\ loc' = [loc EXCEPT ![t] =
                        [all_returns |->
                            cs_all_returns(req[t].portfolio_return, d.vals)]]
    /\ pc' = [pc EXCEPT ![t] = "cs_seed2"]
    /\ UNCHANGED <<histories, weights, result, calls, req, res>>

\* line 199: np.random.seed(42)
CsSeed2(t) ==
    /\ pc[t] = "cs_seed2"
    /\ rng' = np_random_seed(rng, MC_SEED)
    /\ pc' = [pc EXCEPT ![t] = "cs_dirichlet"]
    /\ UNCHANGED <<histories, weights, result, calls, req, loc, res>>

\* lines 200-215: np.random.dirichlet and the result
CsDirichlet(t) ==
    /\ pc[t] = "cs_dirichlet"
    /\ LET aum == np_random_dirichlet(rng, NUM_PORTFOLIOS)
       IN  /\ rng' = aum.state
           /\ res' = [res EXCEPT ![t] =
                        cs_result(loc[t].all_returns, aum, NUM_PORTFOLIOS)]
    /\ pc' = [pc EXCEPT ![t] = "done"]
    /\ UNCHANGED <<histories, weights, result, calls, req, loc>>

NextConc ==
    \E t \in Threads :
        \/ Receive(t)
        \/ McEstimate(t)
        \/ McSeed(t)
        \/ McNormal(t)
        \/ McChoice(t)
        \/ CsSeed1(t)
        \/ CsNormal(t)
        \/ CsSeed2(t)
        \/ CsDirichlet(t)

SpecConc == InitConc /\ [][NextConc]_vars

(***************************************************************************)
(* Properties                                                              *)
(***************************************************************************)
KeySet(w) == {w[i].ticker : i \in 1..Len(w)}

\* the instruments the specification calls eligible: a weight key other
\* than CASH with a non-empty price history
Eligible == {t \in Stocks : t \in KeySet(weights) /\ histories[t] # <<>>}

ShortestEligible ==
    CHOOSE n \in {Len(histories[t]) : t \in Eligible} :
        \A t \in Eligible : n <= Len(histories[t])

SeqRange(s) == {s[i] : i \in 1..Len(s)}

\* C1: calculate_portfolio_returns returns None exactly when no weight key
\* other than CASH has a non-empty history or the shortest eligible history
\* has fewer than 20 observations; otherwise the series has (shortest - 1)
\* entries and is built from the eligible instruments only.
C1_PortfolioReturnsInsufficientData ==
    result.op = "portfolio_returns" =>
        LET fr == result.frame
        IN  /\ fr.ret.none <=> (Eligible = {} \/ ShortestEligible < 20)
            /\ ~fr.ret.none =>
                 /\ Len(fr.ret.r) = ShortestEligible - 1
                 /\ SeqRange(fr.tickers) = Eligible
                 /\ Len(fr.tickers) = Cardinality(Eligible)
                 /\ Len(fr.prices) = Cardinality(Eligible)

\* C1 witness: CASH and a history-less key are excluded and the remaining
\* instrument has exactly 20 observations: a series of 19 returns.
C1_Witness ==
    /\ result.op = "portfolio_returns"
    /\ ~result.frame.ret.none
    /\ Len(weights) = 3
    /\ Len(result.frame.tickers) = 1
    /\ Len(result.frame.ret.r) = 19

\* C2: in calculate_portfolio_returns, calculate_risk_contributions and
\* _get_aligned_returns_with_dates the weights applied to the instrument
\* return series (weight / sum of eligible weights) sum to 1, for every
\* weight map, short and non-unit-sum ones included.
C2_AppliedWeightsSumToOne ==
    (/\ result.op \in {"portfolio_returns", "aligned_returns", "risk_contributions"}
     /\ ~result.frame.ret.none) =>
        /\ result.frame.weights_arr.den # 0
        /\ SumSeq(result.frame.weights_arr.num) = result.frame.weights_arr.den

\* C3: every eligible instrument contributes exactly its last L prices, L
\* the shortest eligible history length (the newest observation is kept, the
\* oldest excess dropped); the dates, taken from the first eligible
\* instrument, are as many as the returns and date k is the date of the
\* later of the two prices of return k.
C3_RightAligned ==
    (/\ result.op \in {"portfolio_returns", "aligned_returns"}
     /\ ~result.frame.ret.none) =>
        LET fr == result.frame
            L == ShortestEligible
        IN  /\ \A i \in 1..Len(fr.tickers) :
                  LET hist == histories[fr.tickers[i]]
                  IN  /\ Len(fr.prices[i]) = L
                      /\ \A k \in 1..L :
                            fr.prices[i][k] = hist[Len(hist) - L + k].close
            /\ result.op = "aligned_returns" =>
                  LET first == histories[fr.tickers[1]]
                  IN  /\ Len(fr.dates) = Len(fr.ret.r)
                      /\ \A k \in 1..Len(fr.dates) :
                            fr.dates[k] = first[Len(first) - L + k + 1].date

\* C3 witness: two eligible instruments with histories of different length,
\* the first one the longer.
C3_Witness ==
    /\ result.op = "aligned_returns"
    /\ ~result.frame.ret.none
    /\ Len(result.frame.tickers) = 2
    /\ Len(histories[result.frame.tickers[1]]) > Len(histories[result.frame.tickers[2]])
    /\ Len(result.frame.dates) = 19

NotAllIdentical(s) == \E i, j \in 1..Len(s) : s[i] # s[j]

\* C6 as stated: for a return series of at least 20 samples that are not
\* all identical, var_99 >= var_95 >= 0 and cvar_95 >= var_95.
C6_VarOrderingNonNegative ==
    (/\ result.op = "risk_metrics"
     /\ ~result.none
     /\ result.metrics.finite
     /\ Len(result.returns) >= 20
     /\ NotAllIdentical(result.returns)) =>
        /\ result.metrics.var_99 >= result.metrics.var_95
        /\ result.metrics.var_95 >= 0
        /\ result.metrics.cvar_95 >= result.metrics.var_95

\* C6 amended: for a return series of at least 20 samples that are not all
\* identical, var_99 >= var_95 and cvar_95 >= var_95 (var_95 itself is
\* negative when the 5th percentile of the returns is positive).
C6_VarOrdering ==
    (/\ result.op = "risk_metrics"
     /\ ~result.none
     /\ result.metrics.finite
     /\ Len(result.returns) >= 20
     /\ NotAllIdentical(result.returns)) =>
        /\ result.metrics.var_99 >= result.metrics.var_95
        /\ result.metrics.cvar_95 >= result.metrics.var_95

\* C6 witness: a 20-sample series on which both orderings are strict
C6_Witness ==
    /\ result.op = "risk_metrics"
    /\ ~result.none
    /\ result.metrics.finite
    /\ Len(result.returns) >= 20
    /\ result.metrics.var_99 > result.metrics.var_95
    /\ result.metrics.cvar_95 > result.metrics.var_95

\* C7: max_drawdown is the negated minimum of the drawdown curve
\* D[i] = C[i]/P[i] - 1 over the whole series, lies between 0 and 100
\* percent, and is never smaller than current_drawdown.
C7_DrawdownBound ==
    (/\ result.op = "risk_metrics"
     /\ ~result.none
     /\ result.metrics.dd_finite) =>
        LET D == DrawdownCurve(result.returns).d
        IN  /\ result.metrics.max_drawdown = -MinSeq(D)
            /\ result.metrics.max_drawdown >= 0
            /\ result.metrics.max_drawdown <= 10000
            /\ result.metrics.max_drawdown >= result.metrics.current_drawdown

\* C7 witness of the case at issue: a single-day log return below -1 (a fall
\* of more than 63 percent) inside an otherwise flat series
C7_Witness ==
    /\ result.op = "risk_metrics"
    /\ ~result.none
    /\ result.metrics.dd_finite
    /\ \E i \in 1..Len(result.returns) : result.returns[i] < -1000

\* the return series and dates a rolling or backtest call worked on
AlignedReturns == result.aligned.ret.r

AlignedDates == result.aligned.dates

\* C8: when exactly k of the m = n - W backtested indices i satisfy
\* realized[i] < -predicted_var[i], predicted_var[i] being the negated
\* (1 - c) * 100 percentile of returns[i - W : i], backtest_var reports
\* breaches = k and breach_rate = k / m * 100 to 2 decimals, 0 <= k <= m.
C8_BreachCounting ==
    (/\ result.op = "backtest"
     /\ ~result.out.none
     /\ result.out.finite) =>
        LET W == result.window
            m == Len(AlignedReturns) - W
            \* indices are 0-based as in the claim; sequences are 1-based
            breach(i) ==
                100 * AlignedReturns[i + 1] <
                    Percentile100(SubSeq(AlignedReturns, i - W + 1, i),
                                  100 - result.confidence)
            k == Cardinality({i \in W..(Len(AlignedReturns) - 1) : breach(i)})
        IN  /\ result.out.breaches = k
            /\ result.out.breach_rate = RoundDiv(k * 10000, m)
            /\ 0 <= result.out.breaches
            /\ result.out.breaches <= m

\* C8 witness: a backtest that reports at least one breach and at least one
\* index without a breach
C8_Witness ==
    /\ result.op = "backtest"
    /\ ~result.out.none
    /\ result.out.finite
    /\ result.out.breaches >= 1
    /\ result.out.breaches < Len(result.out.realized_returns)

\* C9: for a window W and n >= W + 1 returns, backtest_var emits exactly
\* n - W observations for i = W .. n - 1 in that order; the prediction
\* paired with realized return i is computed from returns[i - W : i] only
\* and carries the date of return i; dates, predicted_var and
\* realized_returns have the same length.
C9_BacktestNoLookAhead ==
    result.op = "backtest" =>
        LET W == result.window
            n == Len(AlignedReturns)
        IN  /\ result.out.none <=> (result.aligned.ret.none \/ n < W + 1)
            /\ ~result.out.none =>
                 /\ Len(result.out.dates) = n - W
                 /\ Len(result.out.predicted_var) = n - W
                 /\ Len(result.out.realized_returns) = n - W
                 /\ \A k \in 1..(n - W) :
                       LET i == W + k - 1
                       IN  /\ result.out.dates[k] = AlignedDates[i + 1]
                           /\ result.out.realized_returns[k] =
                                  10 * AlignedReturns[i + 1]
                           /\ result.out.predicted_var[k] =
                                  RoundDiv(-Percentile100(
                                               SubSeq(AlignedReturns, i - W + 1, i),
                                               100 - result.confidence), 10)

\* C9 witness: a backtest over several indices whose predictions differ
C9_Witness ==
    /\ result.op = "backtest"
    /\ ~result.out.none
    /\ result.out.finite
    /\ Len(result.out.dates) >= 2
    /\ \E j, k \in 1..Len(result.out.predicted_var) :
          result.out.predicted_var[j] # result.out.predicted_var[k]

\* C10: for a window W and n >= W returns, calculate_rolling_metrics emits
\* exactly n - W + 1 observations; observation k is computed over
\* returns[k : k + W]; dates, rolling_var_95, rolling_volatility and
\* drawdown_series have that length; date k is the last date of window k and
\* drawdown point k is the drawdown of the full cumulative curve there.
C10_RollingShape ==
    result.op = "rolling" =>
        LET W == result.window
            n == Len(AlignedReturns)
            D == DrawdownCurve(AlignedReturns).d
        IN  /\ result.out.none <=> (result.aligned.ret.none \/ n < W)
            /\ ~result.out.none =>
                 /\ Len(result.out.dates) = n - W + 1
                 /\ Len(result.out.rolling_var_95) = n - W + 1
                 /\ Len(result.out.rolling_volatility) = n - W + 1
                 /\ Len(result.out.drawdown_series) = n - W + 1
                 /\ \A k \in 0..(n - W) :
                       LET win == SubSeq(AlignedReturns, k + 1, k + W)
                       IN  /\ result.out.rolling_var_95[k + 1] =
                                  RoundDiv(-Percentile100(win, 5) * 127, 80)
                           /\ result.out.rolling_volatility[k + 1] =
                                  RoundDiv(NpStd(win) * 1270, 8)
                           /\ result.out.dates[k + 1] = AlignedDates[k + W]
                           /\ result.out.drawdown_series[k + 1] = D[k + W]

\* C10 witness: several rolling observations with differing VaR and a
\* drawdown below zero
C10_Witness ==
    /\ result.op = "rolling"
    /\ ~result.out.none
    /\ result.out.finite
    /\ Len(result.out.dates) >= 2
    /\ \E j, k \in 1..Len(result.out.rolling_var_95) :
          result.out.rolling_var_95[j] # result.out.rolling_var_95[k]
    /\ \E j \in 1..Len(result.out.drawdown_series) :
          result.out.drawdown_series[j] < 0

IsMC(c) == c.op = "monte_carlo"

\* C4: two calculate_monte_carlo invocations with the same histories,
\* weights, simulation count and horizon return identical results (bands,
\* terminal VaR/CVaR, terminal sample), whatever calls ran before or between.
C4_MonteCarloDeterministic ==
    \A i, j \in 1..Len(calls) :
        (/\ IsMC(calls[i]) /\ IsMC(calls[j])
         /\ calls[i].simulations = calls[j].simulations
         /\ calls[i].horizon = calls[j].horizon) =>
            calls[i].out = calls[j].out

\* C4 witness: the same simulation requested twice with a different
\* random-drawing call in between, on a series with non-zero volatility
C4_Witness ==
    /\ Len(calls) = 3
    /\ IsMC(calls[1]) /\ IsMC(calls[3])
    /\ calls[1].simulations = calls[3].simulations
    /\ calls[1].horizon = calls[3].horizon
    /\ calls[1].simulations >= 2
    /\ ~calls[1].out.none
    /\ calls[2].op = "composite_stats"
    /\ calls[1].out.fan_chart.p1 # calls[1].out.fan_chart.p99

\* the result of a request served with no other request running
Alone(r) ==
    IF r.op = "monte_carlo"
    THEN calculate_monte_carlo(histories, weights,
                               r.simulations, r.horizon, 0).ret
    ELSE calculate_composite_stats(r.portfolio_return, NUM_PORTFOLIOS, 0).ret

\* C5: requests share no mutable state: under every interleaving a request
\* (Monte Carlo or composite statistics) returns what it returns when run
\* alone.
C5_RequestsIndependent ==
    \A t \in Threads : pc[t] = "done" => res[t] = Alone(req[t])

\* C5 witness of the case at issue: both threads have completed a request
\* that drew from the generator
C5_Witness ==
    /\ \A t \in Threads : pc[t] = "done"
    /\ \E t \in Threads : req[t].op = "monte_carlo" /\ ~res[t].none

(***************************************************************************)
(* Risk Decomposition: calculate_risk_contributions,                       *)
(* calculate_correlation_matrix and their endpoints                        *)
(*                                                                         *)
(* A covariance is kept in 1/1000000 (the product of two returns); the     *)
(* z-score stats.norm.ppf(0.95) = 1.6449 is taken as 16449/10000.          *)
(***************************************************************************)
RECURSIVE Pow10(_)
Pow10(k) == IF k = 0 THEN 1 ELSE 10 * Pow10(k - 1)

\* a * 10^k / b to the nearest integer for b > 0, by long division
RECURSIVE ScaledDiv(_, _, _)
ScaledDiv(a, b, k) ==
    IF k = 0 THEN RoundDiv(a, b)
    ELSE Pow10(k) * (a \div b) + ScaledDiv(10 * (a % b), b, k - 1)

\* n * sum(x*y) - sum(x) * sum(y): n * (n - 1) times the sample covariance
CovNum(x, y) ==
    Len(x) * SumSeq([k \in 1..Len(x) |-> x[k] * y[k]]) - SumSeq(x) * SumSeq(y)

\* np.cov(returns_matrix) * TRADING_DAYS for two or more rows
AnnualCov(returns_matrix) ==
    LET k == Len(returns_matrix)
        n == Len(returns_matrix[1])
    IN  [i \in 1..k |-> [j \in 1..k |->
            TRADING_DAYS * RoundDiv(CovNum(returns_matrix[i], returns_matrix[j]),
                                    n * (n - 1))]]

\* sorted(contributions, key=pct_contribution, reverse=True): stable, equal
\* keys keep their order
RECURSIVE InsertDesc(_, _)
InsertDesc(x, s) ==
    IF s = <<>> THEN <<x>>
    ELSE IF x.pct_contribution > Head(s).pct_contribution THEN <<x>> \o s
    ELSE <<Head(s)>> \o InsertDesc(x, Tail(s))

RECURSIVE SortByPctDesc(_)
SortByPctDesc(s) ==
    IF s = <<>> THEN <<>>
    ELSE InsertDesc(s[Len(s)], SortByPctDesc(SubSeq(s, 1, Len(s) - 1)))

\* RiskEngine.calculate_risk_contributions.  raised: the call ended in an
\* exception; otherwise list is the returned list.  With one eligible
\* ticker np.cov squeezes its 1x1 result to a scalar and cov_matrix[i, i]
\* raises IndexError.  finite is FALSE on a record whose marginal,
\* component and percentage figures are nan or inf.
calculate_risk_contributions(h, w) ==
    LET items == EligibleItems(h, w)
        tickers == [i \in 1..Len(items) |-> items[i].ticker]
    IN  IF tickers = <<>> THEN [raised |-> FALSE, list |-> <<>>]
        ELSE IF MinLen(h, items) < MIN_OBS THEN [raised |-> FALSE, list |-> <<>>]
        ELSE IF Len(tickers) = 1 THEN [raised |-> TRUE, list |-> <<>>]
        ELSE
          LET fr == risk_contribution_weights(h, w)
              k == Len(tickers)
              returns_matrix == [i \in 1..k |-> calculate_returns(fr.prices[i])]
              num == fr.weights_arr.num
              den == fr.weights_arr.den
              sgn == IF den < 0 THEN -1 ELSE 1
              cov_matrix == AnnualCov(returns_matrix)
              \* np.dot(cov_matrix, weights_arr) * den
              cw == [i \in 1..k |->
                       SumSeq([j \in 1..k |-> cov_matrix[i][j] * num[j]])]
              \* portfolio_var * den^2
              pv == SumSeq([i \in 1..k |-> num[i] * cw[i]])
              \* portfolio_vol * |den|, in 1/1000
              pvol == IF pv > 0 THEN Isqrt(pv) ELSE 0
              ok == den # 0 /\ pv > 0 /\ pvol > 0
              marginal(i) == RoundDiv(sgn * RoundDiv(cw[i] * 10, pvol) * 16449, 10000)
              contributions ==
                [i \in 1..k |->
                   [ticker |-> tickers[i],
                    weight_finite |-> den # 0,
                    weight |-> IF den = 0 THEN 0
                               ELSE ScaledDiv(sgn * num[i], Abs(den), 4),
                    volatility |-> Isqrt(cov_matrix[i][i] * 100),
                    finite |-> ok,
                    marginal_var |-> IF ok THEN marginal(i) ELSE 0,
                    component_var |-> IF ok
                                      THEN RoundDiv(sgn * num[i] * marginal(i), Abs(den))
                                      ELSE 0,
                    pct_contribution |-> IF ok
                                         THEN ScaledDiv(num[i] * cw[i], pv, 4)
                                         ELSE 0]]
          IN  [raised |-> FALSE,
               list |-> IF ok THEN SortByPctDesc(contributions) ELSE contributions]

\* np.corrcoef entry times 100, rounded: cov / sqrt(var_i * var_j), clipped
\* to [-1, 1]; nan (ok FALSE) when a row has no variance
CorrEntry(x, y) ==
    LET sx == Isqrt(CovNum(x, x))
        sy == Isqrt(CovNum(y, y))
    IN  IF sx = 0 \/ sy = 0 THEN [ok |-> FALSE, v |-> 0]
        ELSE [ok |-> TRUE,
              v |-> Max2(-100, Min2(100, RoundDiv(100 * CovNum(x, y), sx * sy)))]

\* RiskEngine.calculate_correlation_matrix; tickers is the position list
calculate_correlation_matrix(h, tickers) ==
    LET valid_tickers == SelectSeq(tickers, LAMBDA t : t # CASH /\ h[t] # <<>>)
        k == Len(valid_tickers)
        empty == [tickers |-> <<>>, matrix |-> <<>>]
    IN  IF k < 2 THEN empty
        ELSE LET min_len == MinSeq([i \in 1..k |-> Len(h[valid_tickers[i]])])
             IN  IF min_len < MIN_OBS THEN empty
                 ELSE LET returns_matrix ==
                              [i \in 1..k |->
                                 calculate_returns(AlignedPrices(h[valid_tickers[i]],
                                                                 min_len))]
                      IN  [tickers |-> valid_tickers,
                           matrix |-> [i \in 1..k |-> [j \in 1..k |->
                                         CorrEntry(returns_matrix[i],
                                                   returns_matrix[j])]]]

\* GET /{portfolio_id}/risk/contributions for an existing portfolio: the
\* engine's list is the 200 body; an exception is a 500
get_risk_contributions(h, w) ==
    LET out == calculate_risk_contributions(h, w)
    IN  IF out.raised THEN [status |-> 500, body |-> <<>>]
        ELSE [status |-> 200, body |-> out.list]

\* GET /{portfolio_id}/correlation for an existing portfolio
get_correlation(h, w) ==
    LET tickers == [i \in 1..Len(w) |-> w[i].ticker]
    IN  [status |-> 200, body |-> calculate_correlation_matrix(h, tickers)]

\* histories with moderate returns only (covariances stay in range)
DecompHistoryPool(t) ==
    {<<>>} \cup
    {History(pat, len) :
        pat \in (IF t = "AAA" THEN {"flat", "rise", "zig"}
                 ELSE {"flat", "zig", "fall"}),
        len \in HistoryLens}

InitDecomp ==
    /\ histories \in { h \in [Stocks -> UNION {DecompHistoryPool(t) : t \in Stocks}] :
                         \A t \in Stocks : h[t] \in DecompHistoryPool(t) }
    /\ weights \in WeightMaps
    /\ result = NoCall
    /\ rng = 0
    /\ InitIdle

GetRiskContributions ==
    /\ result' = [op |-> "get_risk_contributions",
                  response |-> get_risk_contributions(histories, weights)]
    /\ UNCHANGED <<histories, weights, rng, calls, pc, req, loc, res>>

GetCorrelation ==
    /\ result' = [op |-> "get_correlation",
                  response |-> get_correlation(histories, weights)]
    /\ UNCHANGED <<histories, weights, rng, calls, pc, req, loc, res>>

NextDecomp == GetRiskContributions \/ GetCorrelation

SpecDecomp == InitDecomp /\ [][NextDecomp]_vars

\* the eligibility rule of section 4.1 on the current inputs
InsufficientData ==
    \/ Eligible = {}
    \/ ShortestEligible < MIN_OBS

\* C11: when no eligible instrument remains or the shortest eligible history
\* has fewer than 20 observations (for correlation also: fewer than 2
\* eligible instruments), the /risk/contributions and /correlation endpoints
\* answer with a failure the caller can tell from a success, never with a
\* successful response carrying an empty result.
C11_InsufficiencySignalled ==
    /\ (result.op = "get_risk_contributions" /\ InsufficientData)
          => result.response.status # 200
    /\ (result.op = "get_correlation"
          /\ (InsufficientData \/ Len(EligibleItems(histories, weights)) < 2))
          => result.response.status # 200

(***************************************************************************)
(* Error outcomes of the advanced risk endpoints                           *)
(***************************************************************************)
\* get_rolling_metrics after the engine call: None becomes a 400 with the
\* one detail text the router has, anything else is the 200 body
get_rolling_metrics(out) ==
    IF out.none THEN [status |-> 400, detail |-> "Insufficient price history"]
    ELSE [status |-> 200, detail |-> ""]

\* C12: a rolling window larger than the available return series is rejected
\* as InvalidParameter, an outcome distinct from InsufficientData (the
\* answer given when the histories themselves are too short).
C12_InvalidParameterDistinct ==
    (/\ result.op = "rolling"
     /\ ~result.aligned.ret.none
     /\ result.window > Len(result.aligned.ret.r))
        => LET response == get_rolling_metrics(result.out)
           IN  /\ response.status # 200
               /\ response.detail # "Insufficient price history"

(***************************************************************************)
(* Regression & Factor Analysis: calculate_beta,                           *)
(* calculate_factor_exposures and their endpoints                          *)
(***************************************************************************)
\* Python slice s[-k:] for k >= 0: the last k items, and for k = 0 the
\* slice s[-0:] = s[0:], all of s
TrimTail(s, k) == IF k = 0 THEN s ELSE LastK(s, k)

\* [d["close"] for d in history]
Closes(hist) == [k \in 1..Len(hist) |-> hist[k].close]

NoBeta == [none |-> TRUE]

\* RiskEngine.calculate_beta on two return arrays.  beta and correlation in
\* 1/1000, alpha in hundredths of a percent; r_squared_finite is FALSE
\* where np.corrcoef divides by a zero standard deviation (nan).
calculate_beta(portfolio_returns, benchmark_returns) ==
    IF Len(portfolio_returns) # Len(benchmark_returns)
          \/ Len(portfolio_returns) < MIN_OBS
    THEN NoBeta
    ELSE LET n == Len(portfolio_returns)
             cov_n == CovNum(portfolio_returns, benchmark_returns)
             var_b == CovNum(benchmark_returns, benchmark_returns)
             var_p == CovNum(portfolio_returns, portfolio_returns)
             \* cov / var_benchmark = (cov_n / (n (n-1))) / (var_b / n^2)
             beta == IF var_b > 0
                     THEN ScaledDiv(n * cov_n, (n - 1) * var_b, 3)
                     ELSE 0
             alpha == RoundDiv(63 * (1000 * SumSeq(portfolio_returns)
                                      - beta * SumSeq(benchmark_returns)),
                               25 * n)
             sp == Isqrt(var_p)
             sb == Isqrt(var_b)
             defined == sp > 0 /\ sb > 0
             correlation == IF defined
                            THEN Max2(-1000, Min2(1000,
                                     RoundDiv(1000 * cov_n, sp * sb)))
                            ELSE 0
         IN  [none |-> FALSE,
              var_benchmark |-> var_b,
              beta |-> beta,
              alpha |-> alpha,
              r_squared_finite |-> defined,
              r_squared |-> RoundDiv(correlation * correlation, 1000),
              correlation |-> correlation]

\* GET /{portfolio_id}/risk/beta for an existing portfolio.  called is TRUE
\* when the handler got as far as calculate_beta; portfolio_returns and
\* benchmark_returns are then the two arrays it passed.
get_beta(h, w, benchmark) ==
    LET fr == calculate_portfolio_returns(h, w)
        idle == [called |-> FALSE, full_portfolio |-> <<>>, full_benchmark |-> <<>>,
                 portfolio_returns |-> <<>>, benchmark_returns |-> <<>>,
                 out |-> NoBeta]
    IN  IF h[benchmark] = <<>>
        THEN idle @@ [status |-> 400, detail |-> "Cannot fetch data"]
        ELSE IF fr.ret.none
        THEN idle @@ [status |-> 400, detail |-> "Insufficient price history"]
        ELSE LET full_b == calculate_returns(Closes(h[benchmark]))
                 min_len == Min2(Len(fr.ret.r), Len(full_b))
                 p == TrimTail(fr.ret.r, min_len)
                 b == TrimTail(full_b, min_len)
                 out == calculate_beta(p, b)
             IN  [called |-> TRUE,
                  full_portfolio |-> fr.ret.r, full_benchmark |-> full_b,
                  portfolio_returns |-> p, benchmark_returns |-> b,
                  out |-> out,
                  status |-> IF out.none THEN 400 ELSE 200,
                  detail |-> IF out.none THEN "Cannot calculate beta" ELSE ""]

FACTORS == <<"SPY", "IWM", "IVE">>

\* rank of a list of integer rows of equal width, by fraction-free
\* elimination on the first column
RECURSIVE RowRank(_, _)
RowRank(rows, width) ==
    IF width = 0 \/ rows = <<>> THEN 0
    ELSE LET nz == SelectSeq(rows, LAMBDA r : r[1] # 0)
         IN  IF nz = <<>>
             THEN RowRank([i \in 1..Len(rows) |-> Tail(rows[i])], width - 1)
             ELSE LET piv == nz[1]
                      others == SelectSeq(rows, LAMBDA r : r # piv)
                      reduced == [i \in 1..Len(others) |->
                                    [c \in 1..(width - 1) |->
                                       piv[1] * others[i][c + 1]
                                         - others[i][1] * piv[c + 1]]]
                  IN  1 + RowRank(reduced, width - 1)

\* rank of X = [1 | SPY | IWM | IVE] with n >= 1 rows: the column of ones
\* is cleared by subtracting the first row from the others
DesignRank(columns) ==
    LET n == Len(columns[1])
        diffs == [k \in 1..(n - 1) |->
                    [c \in 1..Len(columns) |-> columns[c][k + 1] - columns[c][1]]]
    IN  1 + RowRank(diffs, Len(columns))

NoExposures == [none |-> TRUE]

\* RiskEngine.calculate_factor_exposures; factor_returns maps a factor name
\* to its return array.  np.linalg.lstsq solves by singular value
\* decomposition and returns the minimum-norm solution when X has not full
\* column rank, it raises LinAlgError only if the SVD does not converge:
\* the result carries the rank lstsq reports and which branch set
\* r_squared; the values of the coefficients are not carried.
calculate_factor_exposures(portfolio_returns, factor_returns) ==
    IF \E i \in 1..Len(FACTORS) : FACTORS[i] \notin DOMAIN factor_returns
    THEN NoExposures
    ELSE LET n == Len(portfolio_returns)
         IN  IF \E i \in 1..Len(FACTORS) : Len(factor_returns[FACTORS[i]]) # n
             THEN NoExposures
             ELSE LET columns == [i \in 1..Len(FACTORS) |-> factor_returns[FACTORS[i]]]
                      ss_tot == CovNum(portfolio_returns, portfolio_returns)
                  IN  [none |-> FALSE,
                       n |-> n,
                       rank |-> IF n = 0 THEN 0 ELSE DesignRank(columns),
                       num_betas |-> Len(FACTORS),
                       r_squared |-> IF ss_tot > 0 THEN "1 - ss_res / ss_tot"
                                     ELSE "0"]

\* GET /{portfolio_id}/risk/factors for an existing portfolio
get_factor_exposures(h, w) ==
    LET fr == calculate_portfolio_returns(h, w)
        idle == [called |-> FALSE, portfolio_returns |-> <<>>,
                 factor_returns |-> <<>>, out |-> NoExposures]
    IN  IF fr.ret.none
        THEN idle @@ [status |-> 400, detail |-> "Insufficient price history"]
        ELSE IF \E i \in 1..Len(FACTORS) : h[FACTORS[i]] = <<>>
        THEN idle @@ [status |-> 400, detail |-> "Cannot fetch data"]
        ELSE LET full == [f \in SeqRange(FACTORS) |-> calculate_returns(Closes(h[f]))]
                 min_len == MinSeq(<<Len(fr.ret.r)>> \o
                                   [i \in 1..Len(FACTORS) |-> Len(full[FACTORS[i]])])
                 p == TrimTail(fr.ret.r, min_len)
                 factor_returns == [f \in SeqRange(FACTORS) |-> TrimTail(full[f], min_len)]
                 out == calculate_factor_exposures(p, factor_returns)
             IN  [called |-> TRUE, portfolio_returns |-> p,
                  factor_returns |-> factor_returns, out |-> out,
                  status |-> IF out.none THEN 400 ELSE 200,
                  detail |-> IF out.none THEN "Cannot calculate factor exposures"
                             ELSE ""]

\* market data of the benchmark and factor ETFs: absent, a single close,
\* or a history of one of the market patterns
EtfPool(t) ==
    {<<>>} \cup
    (CASE t = "AAA" -> {History("zig", MIN_OBS - 1), History("zig", MaxLen),
                        History("rise", MIN_OBS), History("flat", MaxLen)}
       [] t = "SPY" -> {History("zig", 1), History("flat", MaxLen),
                        History("zig", MaxLen), History("rise", MaxLen),
                        History("fall", MIN_OBS)}
       [] t = "IWM" -> {History("zig", MaxLen), History("fall", MaxLen),
                        History("rise", 3)}
       [] t = "IVE" -> {History("zig", MaxLen), History("fall", MaxLen),
                        History("flat", MaxLen), History("rise", 1)})

BenchTickers == {"AAA", "BBB", "SPY", "IWM", "IVE"}

InitBench ==
    /\ \E a \in EtfPool("AAA"), m \in EtfPool("SPY"),
          g \in EtfPool("IWM"), v \in EtfPool("IVE") :
             histories = [t \in BenchTickers |->
                             CASE t = "AAA" -> a [] t = "SPY" -> m
                               [] t = "IWM" -> g [] t = "IVE" -> v
                               [] OTHER -> <<>>]
    /\ weights \in { <<[ticker |-> "AAA", weight |-> 1]>>,
                     <<[ticker |-> CASH, weight |-> 2],
                       [ticker |-> "AAA", weight |-> 2]>> }
    /\ result = NoCall
    /\ rng = 0
    /\ InitIdle

\* calculate_returns on the closes of a fetched history, as the endpoints
\* call it for the benchmark and the factors
CalculateReturns ==
    /\ \E t \in BenchTickers :
          /\ histories[t] # <<>>
          /\ result' = [op |-> "calculate_returns",
                        prices |-> Closes(histories[t]),
                        raised |-> FALSE,
                        out |-> calculate_returns(Closes(histories[t]))]
    /\ UNCHANGED <<histories, weights, rng, calls, pc, req, loc, res>>

GetBeta ==
    /\ result' = [op |-> "get_beta",
                  response |-> get_beta(histories, weights, "SPY")]
    /\ UNCHANGED <<histories, weights, rng, calls, pc, req, loc, res>>

GetFactorExposures ==
    /\ result' = [op |-> "get_factor_exposures",
                  response |-> get_factor_exposures(histories, weights)]
    /\ UNCHANGED <<histories, weights, rng, calls, pc, req, loc, res>>

NextBench == CalculateReturns \/ GetBeta \/ GetFactorExposures

SpecBench == InitBench /\ [][NextBench]_vars

\* C13: zero-denominator edge cases never yield a non-finite number: when
\* the benchmark variance is 0, calculate_beta reports beta 0 and a finite
\* r_squared.
C13_ZeroDenominatorsFinite ==
    (/\ result.op = "get_beta"
     /\ result.response.called
     /\ ~result.response.out.none
     /\ result.response.out.var_benchmark = 0)
        => /\ result.response.out.beta = 0
           /\ result.response.out.r_squared_finite

\* the least-squares system of a call is singular or under-determined:
\* fewer observations than the 4 coefficients, or linearly dependent columns
SingularSystem(portfolio_returns, factor_returns) ==
    \/ Len(portfolio_returns) < 4
    \/ DesignRank([i \in 1..Len(FACTORS) |-> factor_returns[FACTORS[i]]]) < 4

\* C14: the multi-factor regression gives no FactorExposures result whenever
\* a factor series has another length than the portfolio series or the
\* least-squares system is singular or under-determined; otherwise it
\* returns one beta per factor and an R-squared.
C14_RegressionUnavailable ==
    (result.op = "get_factor_exposures" /\ result.response.called) =>
        LET r == result.response
            misaligned == \E i \in 1..Len(FACTORS) :
                             Len(r.factor_returns[FACTORS[i]]) # Len(r.portfolio_returns)
        IN  IF misaligned \/ SingularSystem(r.portfolio_returns, r.factor_returns)
            THEN r.out.none /\ r.status # 200
            ELSE ~r.out.none /\ r.out.num_betas = 3

\* C15: on n >= 2 prices calculate_returns gives exactly n - 1 returns, the
\* i-th from price i and price i + 1 only; on n < 2 prices it fails with
\* InsufficientData instead of returning a series.
C15_LogReturnLength ==
    result.op = "calculate_returns" =>
        LET n == Len(result.prices)
        IN  IF n >= 2
            THEN /\ ~result.raised
                 /\ Len(result.out) = n - 1
                 /\ \A i \in 1..(n - 1) :
                       result.out[i] = Ln(result.prices[i + 1]) - Ln(result.prices[i])
            ELSE result.raised

\* C16: calculate_beta returns a result exactly when both series have the
\* same length and that length is at least 20, and the /risk/beta endpoint
\* hands it both series right-aligned to the shorter length (the most
\* recent observations of each).
C16_BetaAlignment ==
    (result.op = "get_beta" /\ result.response.called) =>
        LET r == result.response
            shorter == Min2(Len(r.full_portfolio), Len(r.full_benchmark))
        IN  /\ ~r.out.none <=> (/\ Len(r.portfolio_returns) = Len(r.benchmark_returns)
                                /\ Len(r.portfolio_returns) >= MIN_OBS)
            /\ r.portfolio_returns = LastK(r.full_portfolio, shorter)
            /\ r.benchmark_returns = LastK(r.full_benchmark, shorter)

(***************************************************************************)
(* Calendar dates.  A date string "YYYY-MM-DD" is the triple of its three  *)
(* fields; datetime.strptime turns it into a datetime (a record), and a    *)
(* datetime is ordered by its proleptic Gregorian ordinal.                 *)
(***************************************************************************)
IsLeap(y) == (y % 4 = 0 /\ y % 100 # 0) \/ y % 400 = 0

DaysInMonth(y, m) ==
    CASE m \in {1, 3, 5, 7, 8, 10, 12} -> 31
      [] m \in {4, 6, 9, 11} -> 30
      [] OTHER -> IF IsLeap(y) THEN 29 ELSE 28

RECURSIVE DaysBeforeMonth(_, _)
DaysBeforeMonth(y, m) ==
    IF m = 1 THEN 0 ELSE DaysBeforeMonth(y, m - 1) + DaysInMonth(y, m - 1)

DaysBeforeYear(y) ==
    365 * (y - 1) + ((y - 1) \div 4) - ((y - 1) \div 100) + ((y - 1) \div 400)

\* datetime.toordinal
Ordinal(dt) == DaysBeforeYear(dt.year) + DaysBeforeMonth(dt.year, dt.month) + dt.day

\* the years the histories drawn lie in
CalendarYears == 2022..2026

\* datetime.fromordinal
FromOrdinal(n) ==
    LET y == CHOOSE yy \in CalendarYears :
                 DaysBeforeYear(yy) < n /\ n <= DaysBeforeYear(yy + 1)
        rest == n - DaysBeforeYear(y)
        m == CHOOSE mm \in 1..12 :
                 /\ DaysBeforeMonth(y, mm) < rest
                 /\ rest <= DaysBeforeMonth(y, mm) + DaysInMonth(y, mm)
    IN  [year |-> y, month |-> m, day |-> rest - DaysBeforeMonth(y, m)]

\* datetime.strptime(d, "%Y-%m-%d")
strptime(d) == [year |-> d[1], month |-> d[2], day |-> d[3]]

\* dt.strftime("%Y-%m-%d")
strftime(dt) == <<dt.year, dt.month, dt.day>>

\* a >= b on datetimes
DtGeq(a, b) ==
    \/ a.year > b.year
    \/ a.year = b.year /\ a.month > b.month
    \/ a.year = b.year /\ a.month = b.month /\ a.day >= b.day

\* trading calendars: the date of the most recent observation and the
\* number of days between two observations
Calendars ==
    { [name |-> "one_month",   last |-> <<2024, 3, 25>>,  step |-> 1],
      [name |-> "month_start", last |-> <<2024, 3, 1>>,   step |-> 1],
      [name |-> "new_year",    last |-> <<2025, 1, 2>>,   step |-> 1],
      [name |-> "weekly",      last |-> <<2024, 12, 30>>, step |-> 7],
      [name |-> "monthly",     last |-> <<2025, 5, 10>>,  step |-> 30] }

\* date string of trading day d (1 .. MaxLen) in a calendar
CalDate(cal, d) ==
    strftime(FromOrdinal(Ordinal(strptime(cal.last)) - cal.step * (MaxLen - d)))

\* a price history on a calendar, ending on the calendar's last day
CalHistory(pat, len, cal) ==
    [k \in 1..len |-> [date |-> CalDate(cal, MaxLen - len + k),
                       close |-> Price(pat, MaxLen - len + k)]]

(***************************************************************************)
(* Performance: RiskEngine.calculate_period_returns                        *)
(***************************************************************************)
PERIODS == <<"MTD", "QTD", "YTD", "1Y">>

\* the value of _get_period_start_index that stands for None
NoIndex == -1

\* target of _get_period_start_index for the final date end_date
PeriodTarget(end_date, period) ==
    CASE period = "MTD" -> [end_date EXCEPT !.day = 1]
      [] period = "QTD" ->
            [end_date EXCEPT !.month = ((end_date.month - 1) \div 3) * 3 + 1,
                             !.day = 1]
      [] period = "YTD" -> [end_date EXCEPT !.month = 1, !.day = 1]
      [] period = "1Y"  -> FromOrdinal(Ordinal(end_date) - 365)

\* mutant of get_period_start_index: the first date strictly after the target
get_period_start_index_after(dates, period) ==
    IF dates = <<>> THEN NoIndex
    ELSE LET target == PeriodTarget(strptime(dates[Len(dates)]), period)
             hits == {i \in 1..Len(dates) :
                         /\ DtGeq(strptime(dates[i]), target)
                         /\ strptime(dates[i]) # target}
         IN  IF hits = {} THEN NoIndex
             ELSE (CHOOSE i \in hits : \A j \in hits : i <= j) - 1

\* RiskEngine._get_period_start_index: the 0-based index of the first date
\* >= target, NoIndex for None
get_period_start_index(dates, period) ==
    IF dates = <<>> THEN NoIndex
    ELSE LET target == PeriodTarget(strptime(dates[Len(dates)]), period)
             hits == {i \in 1..Len(dates) : DtGeq(strptime(dates[i]), target)}
         IN  IF hits = {} THEN NoIndex
             ELSE (CHOOSE i \in hits : \A j \in hits : i <= j) - 1

\* largest y in lo..hi with 100 * exp(y / 1000) <= c
RECURSIVE LnSearch(_, _, _)
LnSearch(c, lo, hi) ==
    IF lo >= hi THEN lo
    ELSE LET mid == (lo + hi + 1) \div 2
         IN  IF ExpBase100(mid) <= c THEN LnSearch(c, mid, hi)
             ELSE LnSearch(c, lo, mid - 1)

\* (1 + total_return) ** (TRADING_DAYS / n_days) - 1 as a percentage in
\* hundredths, base the compounded value in 1/10000.  A negative base with
\* a fractional exponent is nan; with an integral exponent it is a power.
Annualize(base, n_days) ==
    IF base = 0 THEN [finite |-> TRUE, v |-> -10000]
    ELSE IF base < 0 /\ TRADING_DAYS % n_days # 0 THEN [finite |-> FALSE, v |-> 0]
    ELSE LET ln == LnSearch(Abs(base), -7000, 7000)
             pow == ExpBase100(RoundDiv(TRADING_DAYS * ln, n_days))
             neg == base < 0 /\ (TRADING_DAYS \div n_days) % 2 = 1
         IN  [finite |-> TRUE, v |-> (IF neg THEN -pow ELSE pow) - 10000]

NoPeriodReturns == [none |-> TRUE]

\* RiskEngine.calculate_period_returns.  Every period carries idx, the index
\* _get_period_start_index gave, next to the reported percentage.
calculate_period_returns(h, w) ==
    LET fr == get_aligned_returns_with_dates(h, w)
        returns == fr.ret.r
        dates == fr.dates
    IN  IF fr.ret.none \/ Len(returns) < 2 THEN NoPeriodReturns
        ELSE
          LET cumulative == CumProd(returns)
              n_days == Len(returns)
              last == cumulative[n_days]
              total_return == last - 10000
              annualized == Annualize(last, n_days)
              period_return(period) ==
                  LET idx == get_period_start_index(dates, period)
                  IN  IF idx # NoIndex /\ idx < Len(cumulative)
                      THEN LET start_val == IF idx > 0 THEN cumulative[idx]
                                            ELSE 10000
                           IN  [none |-> FALSE, idx |-> idx,
                                finite |-> fr.ret.finite /\ start_val # 0,
                                v |-> IF start_val = 0 THEN 0
                                      ELSE IF start_val > 0
                                      THEN ScaledDiv(last - start_val, start_val, 4)
                                      ELSE ScaledDiv(start_val - last, -start_val, 4)]
                      ELSE [none |-> TRUE, idx |-> idx, finite |-> TRUE, v |-> 0]
          IN  [none |-> FALSE,
               finite |-> fr.ret.finite,
               mtd |-> period_return("MTD"),
               qtd |-> period_return("QTD"),
               ytd |-> period_return("YTD"),
               one_year |-> period_return("1Y"),
               since_inception |-> total_return,
               annualized |-> annualized]

(***************************************************************************)
(* GIPS reporter: calculate_twr, calculate_portfolio_twr,                  *)
(* calculate_period_returns and calculate_calendar_year_returns of         *)
(* GIPSService.                                                            *)
(*                                                                         *)
(* A portfolio value sum(w * 100 * price / base) is kept as the integer    *)
(* sum(w * price * product of the other base prices), the value times the  *)
(* positive constant product(base) / 100: the service only forms ratios of *)
(* two values and tests their sign.  A gross or net return is kept in      *)
(* 1/1000000, a reported percentage in hundredths of a percent.            *)
(***************************************************************************)
DEFAULT_FEE_BPS == 50

RECURSIVE ProdSeq(_)
ProdSeq(s) == IF s = <<>> THEN 1 ELSE Head(s) * ProdSeq(Tail(s))

\* GIPSService.calculate_twr on a list of positive prices: the daily
\* returns linked one by one; the return as a percentage in hundredths
RECURSIVE TwrCumulative(_)
TwrCumulative(prices) ==
    IF Len(prices) < 2 THEN 10000
    ELSE LET n == Len(prices)
             daily_return == ScaledDiv(prices[n] - prices[n - 1], prices[n - 1], 4)
         IN  RoundDiv(TwrCumulative(SubSeq(prices, 1, n - 1)) * (10000 + daily_return),
                      10000)

calculate_twr(prices) ==
    IF Len(prices) < 2 THEN 0 ELSE TwrCumulative(prices) - 10000

NoTwr == [none |-> TRUE, values |-> <<>>, dates |-> <<>>]

\* GIPSService.calculate_portfolio_twr: the portfolio value series and the
\* dates of the first ticker
calculate_portfolio_twr(h, w) ==
    LET items == EligibleItems(h, w)
        k == Len(items)
    IN  IF k = 0 THEN NoTwr
        ELSE LET min_len == MinLen(h, items)
             IN  IF min_len < MIN_OBS THEN NoTwr
                 ELSE LET win(t) == LastK(h[items[t].ticker], min_len)
                          base == [t \in 1..k |-> win(t)[1].close]
                          others(t) == ProdSeq([u \in 1..k |->
                                                  IF u = t THEN 1 ELSE base[u]])
                      IN  [none |-> FALSE,
                           values |-> [i \in 1..min_len |->
                               SumSeq([t \in 1..k |->
                                   items[t].weight * win(t)[i].close * others(t)])],
                           dates |-> [i \in 1..min_len |-> win(1)[i].date]]

\* f"{dt.year}-{dt.month:02d}"
MonthKey(dt) == <<dt.year, dt.month>>

\* (end / start) - 1 if start > 0 else 0, in 1/1000000
RatioReturn(start_val, end_val) ==
    IF start_val > 0 THEN ScaledDiv(end_val - start_val, start_val, 6) ELSE 0

\* daily_fee * trading_days, in 1/1000000
ProratedFee(fee_bps, trading_days) == RoundDiv(fee_bps * 100 * trading_days, TRADING_DAYS)

\* one GIPSPeriodReturn over the observations first..last (1-based) with
\* its locals gross_return, net_return and trading_days; bench is TRUE when
\* the benchmark branch is taken
GipsPeriodReturn(period, first, last, trading_days, bench, portfolio_values, dates, benchmark_prices, fee_bps) ==
    LET gross_return == RatioReturn(portfolio_values[first], portfolio_values[last])
        net_return == gross_return - ProratedFee(fee_bps, trading_days)
        bench_return == IF bench
                        THEN RatioReturn(benchmark_prices[first],
                                         benchmark_prices[IF last = Len(portfolio_values)
                                                          THEN Len(benchmark_prices)
                                                          ELSE last])
                        ELSE 0
    IN  [period |-> period,
         start_date |-> strftime(strptime(dates[first])),
         end_date |-> dates[last],
         twr_gross |-> RoundDiv(gross_return, 100),
         twr_net |-> RoundDiv(net_return, 100),
         benchmark_return |-> RoundDiv(bench_return, 100),
         excess_return |-> RoundDiv(gross_return - bench_return, 100),
         gross_return |-> gross_return,
         net_return |-> net_return,
         trading_days |-> trading_days]

\* mutant of MonthLoop: a completed month ends on the first observation of
\* the next month (portfolio_values[i] for portfolio_values[i - 1])
RECURSIVE MonthLoop_next_start(_, _, _, _, _, _, _, _)
MonthLoop_next_start(i, current_month, month_start_idx, monthly_returns, portfolio_values, dates, benchmark_prices, fee_bps) ==
    IF i > Len(dates)
    THEN [monthly_returns |-> monthly_returns, current_month |-> current_month,
          month_start_idx |-> month_start_idx]
    ELSE LET month_key == MonthKey(strptime(dates[i]))
         IN  IF month_key # current_month
             THEN MonthLoop_next_start(i + 1, month_key, i,
                      Append(monthly_returns,
                             GipsPeriodReturn(current_month, month_start_idx, i,
                                 i - month_start_idx,
                                 benchmark_prices # <<>> /\ Len(benchmark_prices) >= i - 1,
                                 portfolio_values, dates, benchmark_prices, fee_bps)),
                      portfolio_values, dates, benchmark_prices, fee_bps)
             ELSE MonthLoop_next_start(i + 1, current_month, month_start_idx,
                            monthly_returns,
                            portfolio_values, dates, benchmark_prices, fee_bps)

\* the loop "for i, dt in enumerate(parsed_dates)" from observation i
\* (1-based) on: a change of month key closes the running month
RECURSIVE MonthLoop(_, _, _, _, _, _, _, _)
MonthLoop(i, current_month, month_start_idx, monthly_returns, portfolio_values, dates, benchmark_prices, fee_bps) ==
    IF i > Len(dates)
    THEN [monthly_returns |-> monthly_returns, current_month |-> current_month,
          month_start_idx |-> month_start_idx]
    ELSE LET month_key == MonthKey(strptime(dates[i]))
         IN  IF month_key # current_month
             THEN MonthLoop(i + 1, month_key, i,
                      Append(monthly_returns,
                             GipsPeriodReturn(current_month, month_start_idx, i - 1,
                                 i - month_start_idx,
                                 benchmark_prices # <<>> /\ Len(benchmark_prices) >= i - 1,
                                 portfolio_values, dates, benchmark_prices, fee_bps)),
                      portfolio_values, dates, benchmark_prices, fee_bps)
             ELSE MonthLoop(i + 1, current_month, month_start_idx, monthly_returns,
                            portfolio_values, dates, benchmark_prices, fee_bps)

\* GIPSService.calculate_period_returns (portfolio_values and dates of
\* equal length, as calculate_portfolio_twr builds them)
gips_calculate_period_returns(portfolio_values, dates, benchmark_prices, fee_bps) ==
    IF portfolio_values = <<>> \/ dates = <<>> THEN <<>>
    ELSE LET n == Len(portfolio_values)
             loop == MonthLoop(2, MonthKey(strptime(dates[1])), 1, <<>>,
                               portfolio_values, dates, benchmark_prices, fee_bps)
         IN  IF loop.month_start_idx < n
             THEN Append(loop.monthly_returns,
                         GipsPeriodReturn(loop.current_month, loop.month_start_idx, n,
                             n - loop.month_start_idx + 1,
                             benchmark_prices # <<>> /\ Len(benchmark_prices) >= n,
                             portfolio_values, dates, benchmark_prices, fee_bps))
             ELSE loop.monthly_returns

\* sorted(...) of a set of integers
RECURSIVE SortedSeq(_)
SortedSeq(S) ==
    IF S = {} THEN <<>>
    ELSE LET m == CHOOSE x \in S : \A y \in S : x <= y
         IN  <<m>> \o SortedSeq(S \ {m})

\* GIPSService.calculate_calendar_year_returns
calculate_calendar_year_returns(portfolio_values, dates, benchmark_prices, fee_bps) ==
    IF portfolio_values = <<>> \/ dates = <<>> THEN <<>>
    ELSE LET year(i) == strptime(dates[i]).year
             idxs(y) == {i \in 1..Len(dates) : year(i) = y}
             start_idx(y) == CHOOSE i \in idxs(y) : \A j \in idxs(y) : i <= j
             end_idx(y) == CHOOSE i \in idxs(y) : \A j \in idxs(y) : i >= j
             years == SortedSeq({year(i) : i \in 1..Len(dates)})
             kept == SelectSeq(years, LAMBDA y : end_idx(y) > start_idx(y))
         IN  [k \in 1..Len(kept) |->
                LET y == kept[k]
                    gross == RatioReturn(portfolio_values[start_idx(y)],
                                         portfolio_values[end_idx(y)])
                    trading_days == end_idx(y) - start_idx(y)
                    net == gross - ProratedFee(fee_bps, trading_days)
                    bench == IF benchmark_prices # <<>>
                                  /\ Len(benchmark_prices) >= end_idx(y)
                             THEN RatioReturn(benchmark_prices[start_idx(y)],
                                              benchmark_prices[end_idx(y)])
                             ELSE 0
                IN  [year |-> y,
                     gross |-> RoundDiv(gross, 100),
                     net |-> RoundDiv(net, 100),
                     benchmark |-> RoundDiv(bench, 100),
                     excess |-> RoundDiv(gross - bench, 100),
                     gross_return |-> gross,
                     net_return |-> net,
                     trading_days |-> trading_days,
                     observations |-> Cardinality(idxs(y))]]

(***************************************************************************)
(* Performance and GIPS reporting as a state machine                       *)
(***************************************************************************)
ReportTickers == {"AAA", "BBB", "SPY"}

ReportPool(t, cal) ==
    {<<>>} \cup
    (CASE t = "AAA" -> {CalHistory(pat, len, cal) :
                           pat \in {"rise", "zig"}, len \in HistoryLens}
       [] t = "BBB" -> {CalHistory("fall", MaxLen, cal),
                        CalHistory("zig", MIN_OBS, cal)}
       [] t = "SPY" -> {CalHistory("rise", MaxLen, cal),
                        CalHistory("fall", MIN_OBS - 1, cal)})

ReportWeights ==
    { <<[ticker |-> "AAA", weight |-> 1]>>,
      <<[ticker |-> "AAA", weight |-> -1]>>,
      <<[ticker |-> "AAA", weight |-> 2], [ticker |-> "BBB", weight |-> 1]>>,
      <<[ticker |-> "BBB", weight |-> 1], [ticker |-> "AAA", weight |-> -1]>>,
      <<[ticker |-> CASH, weight |-> 2], [ticker |-> "AAA", weight |-> 2]>> }

FeeBps == {0, DEFAULT_FEE_BPS}

InitReport ==
    /\ \E cal \in Calendars :
          \E a \in ReportPool("AAA", cal), b \in ReportPool("BBB", cal),
             m \in ReportPool("SPY", cal) :
                histories = [t \in ReportTickers |->
                                CASE t = "AAA" -> a [] t = "BBB" -> b [] OTHER -> m]
    /\ weights \in ReportWeights
    /\ result = NoCall
    /\ rng = 0
    /\ InitIdle

CalculatePeriodReturns ==
    /\ result' = [op |-> "period_returns",
                  aligned |-> get_aligned_returns_with_dates(histories, weights),
                  out |-> calculate_period_returns(histories, weights)]
    /\ UNCHANGED <<histories, weights, rng, calls, pc, req, loc, res>>

\* lines 427-443 of calculate_gips_metrics: the value series, the benchmark
\* prices aligned to it, and the monthly records
GipsPeriodReturns ==
    /\ \E fee_bps \in FeeBps :
          LET twr == calculate_portfolio_twr(histories, weights)
              benchmark_prices ==
                  IF histories["SPY"] = <<>> \/ twr.none THEN <<>>
                  ELSE Closes(LastK(histories["SPY"], Len(twr.values)))
          IN  result' = [op |-> "gips_period_returns",
                         none |-> twr.none,
                         fee_bps |-> fee_bps,
                         portfolio_values |-> twr.values,
                         dates |-> twr.dates,
                         out |-> IF twr.none THEN <<>>
                                 ELSE gips_calculate_period_returns(
                                          twr.values, twr.dates,
                                          benchmark_prices, fee_bps)]
    /\ UNCHANGED <<histories, weights, rng, calls, pc, req, loc, res>>

\* lines 427-438 and 492-494 of calculate_gips_metrics
GipsCalendarYearReturns ==
    /\ \E fee_bps \in FeeBps :
          LET twr == calculate_portfolio_twr(histories, weights)
              benchmark_prices ==
                  IF histories["SPY"] = <<>> \/ twr.none THEN <<>>
                  ELSE Closes(LastK(histories["SPY"], Len(twr.values)))
          IN  result' = [op |-> "gips_calendar_year_returns",
                         none |-> twr.none,
                         fee_bps |-> fee_bps,
                         portfolio_values |-> twr.values,
                         dates |-> twr.dates,
                         out |-> IF twr.none THEN <<>>
                                 ELSE calculate_calendar_year_returns(
                                          twr.values, twr.dates,
                                          benchmark_prices, fee_bps)]
    /\ UNCHANGED <<histories, weights, rng, calls, pc, req, loc, res>>

NextReport ==
    \/ CalculatePeriodReturns
    \/ GipsPeriodReturns
    \/ GipsCalendarYearReturns

SpecReport == InitReport /\ [][NextReport]_vars

(***************************************************************************)
(* Properties of the GIPS monthly records and of the period returns        *)
(***************************************************************************)
\* the month groups of a date series: the first index of every maximal run
\* of consecutive observations with one (year, month), in order
RunStarts(dates) ==
    SortedSeq({i \in 1..Len(dates) :
                  i = 1 \/ <<dates[i][1], dates[i][2]>>
                              # <<dates[i - 1][1], dates[i - 1][2]>>})

RunEnd(dates, starts, k) ==
    IF k = Len(starts) THEN Len(dates) ELSE starts[k + 1] - 1

\* last / first - 1 in 1/1000000, first /= 0
ExactRatio(first, last) ==
    IF first > 0 THEN ScaledDiv(last - first, first, 6)
    ELSE ScaledDiv(first - last, -first, 6)

\* date a is before date b
Before(a, b) == Ordinal(strptime(a)) < Ordinal(strptime(b))

\* what C17 says of the monthly records, gross_is(g, first, last) being what
\* it says of the gross return g of a run from value first to value last
MonthlyGrouping(gross_is(_, _, _)) ==
    (result.op = "gips_period_returns" /\ ~result.none) =>
        LET v == result.portfolio_values
            d == result.dates
            starts == RunStarts(d)
            recs == result.out
        IN  /\ Len(recs) <= Len(starts)
            /\ \A k \in 1..Len(recs) :
                  /\ recs[k].start_date = d[starts[k]]
                  /\ recs[k].end_date = d[RunEnd(d, starts, k)]
                  /\ recs[k].period = <<d[starts[k]][1], d[starts[k]][2]>>
                  /\ gross_is(recs[k].gross_return,
                              v[starts[k]], v[RunEnd(d, starts, k)])
            /\ \A k \in 1..(Len(recs) - 1) :
                  Before(recs[k].end_date, recs[k + 1].start_date)
            /\ (Len(starts) = 1 /\ \A i \in 1..Len(v) : v[i] > 0) =>
                  /\ Len(recs) = 1
                  /\ Abs(recs[1].twr_gross - calculate_twr(v)) <= Len(v)

\* C17 (as stated): the monthly records follow the maximal runs of one
\* (year, month) in chronological order, at most one per run, and each
\* record's gross return is (last value of the run / first value) - 1; for
\* a series within one month it equals the linked daily returns.
C17_MonthlyGroupingAnyStart ==
    MonthlyGrouping(LAMBDA g, first, last :
                        first # 0 /\ g = ExactRatio(first, last))

\* C17 (amended): as above, the gross return being (last / first) - 1 when
\* the first value of the run is positive and 0 when it is not.
C17_MonthlyGrouping ==
    MonthlyGrouping(LAMBDA g, first, last :
                        g = IF first > 0 THEN ExactRatio(first, last) ELSE 0)

C17_Witness ==
    /\ result.op = "gips_period_returns"
    /\ ~result.none
    /\ Len(result.out) >= 2
    /\ result.portfolio_values[1] > 0
    /\ result.out[1].gross_return # 0
    /\ result.out[2].gross_return # 0

\* C18: the final month is always reported, whatever number of observations
\* it has: there are as many period records as month groups.
C18_FinalMonthReported ==
    (result.op = "gips_period_returns" /\ ~result.none) =>
        Len(result.out) = Len(RunStarts(result.dates))

\* C19: net = gross - fee_bps/10000/252 x (observations of the period) for
\* every monthly and every calendar-year record, so net <= gross and the
\* days charged over the monthly records add up to the number of
\* observations.
C19_FeeProration ==
    /\ (result.op = "gips_period_returns" /\ ~result.none) =>
          LET d == result.dates
              starts == RunStarts(d)
              recs == result.out
          IN  /\ \A k \in 1..Len(recs) :
                    /\ recs[k].net_return =
                          recs[k].gross_return
                            - ProratedFee(result.fee_bps,
                                          RunEnd(d, starts, k) - starts[k] + 1)
                    /\ recs[k].net_return <= recs[k].gross_return
              /\ SumSeq([k \in 1..Len(recs) |-> recs[k].trading_days]) = Len(d)
    /\ (result.op = "gips_calendar_year_returns" /\ ~result.none) =>
          \A k \in 1..Len(result.out) :
              LET rec == result.out[k]
              IN  /\ rec.net_return =
                        rec.gross_return - ProratedFee(result.fee_bps, rec.observations)
                  /\ rec.net_return <= rec.gross_return

\* boundary of a period as an ordinal, from the final date of the series
Boundary(final, period) ==
    LET y == final[1]
        m == final[2]
        q == CHOOSE qm \in {1, 4, 7, 10} : qm <= m /\ m <= qm + 2
    IN  CASE period = "MTD" -> Ordinal([year |-> y, month |-> m, day |-> 1])
          [] period = "QTD" -> Ordinal([year |-> y, month |-> q, day |-> 1])
          [] period = "YTD" -> Ordinal([year |-> y, month |-> 1, day |-> 1])
          [] period = "1Y"  -> Ordinal(strptime(final)) - 365

\* smallest 1-based index whose date is on or after the boundary
StartOf(dates, period) ==
    CHOOSE i \in 1..Len(dates) :
        /\ Ordinal(strptime(dates[i])) >= Boundary(dates[Len(dates)], period)
        /\ \A j \in 1..(i - 1) :
              Ordinal(strptime(dates[j])) < Boundary(dates[Len(dates)], period)

\* the returns i..n compounded, as a percentage in hundredths
Compounded(returns, i) ==
    LET c == CumProd(SubSeq(returns, i, Len(returns)))
    IN  c[Len(c)] - 10000

\* C20: for MTD, QTD, YTD and 1Y the period starts at the smallest index
\* whose date is >= the boundary derived from the final date, the reported
\* return compounds exactly the returns from that index through the last;
\* the MTD, QTD, YTD start indices are non-increasing in that order and
\* since_inception compounds the whole series.
C20_PeriodReturns ==
    (result.op = "period_returns" /\ ~result.out.none) =>
        LET returns == result.aligned.ret.r
            dates == result.aligned.dates
            out == result.out
            holds(rep, period) ==
                /\ ~rep.none
                /\ rep.idx = StartOf(dates, period) - 1
                /\ rep.finite =>
                      Abs(rep.v - Compounded(returns, StartOf(dates, period))) <= 10
        IN  /\ holds(out.mtd, "MTD")
            /\ holds(out.qtd, "QTD")
            /\ holds(out.ytd, "YTD")
            /\ holds(out.one_year, "1Y")
            /\ out.mtd.idx >= out.qtd.idx
            /\ out.qtd.idx >= out.ytd.idx
            /\ out.finite => out.since_inception = Compounded(returns, 1)

C20_Witness ==
    /\ result.op = "period_returns"
    /\ ~result.out.none
    /\ result.out.finite
    /\ result.out.mtd.idx > result.out.qtd.idx
    /\ result.out.qtd.idx > result.out.ytd.idx
    /\ result.out.ytd.idx > 0
    /\ result.out.mtd.v # result.out.qtd.v

(***************************************************************************)
(* Risk contributions: one record per eligible instrument, in order        *)
(***************************************************************************)
\* the tickers of a list of contribution records
ContributionTickers(list) == {list[i].ticker : i \in 1..Len(list)}

\* C21: with sufficient data the /risk/contributions answer holds one record
\* per eligible instrument (never CASH, never an instrument without history)
\* and the records are in non-increasing order of pct_contribution (compared
\* where the percentages are numbers).
C21_ContributionsPerEligible ==
    (result.op = "get_risk_contributions" /\ ~InsufficientData) =>
        LET body == result.response.body
        IN  /\ result.response.status = 200
            /\ Len(body) = Cardinality(Eligible)
            /\ ContributionTickers(body) = Eligible
            /\ \A i \in 1..(Len(body) - 1) :
                   (body[i].finite /\ body[i + 1].finite) =>
                       body[i].pct_contribution >= body[i + 1].pct_contribution

\* the same statement for two or more eligible instruments
C21_TwoOrMoreEligible ==
    (result.op = "get_risk_contributions" /\ ~InsufficientData
        /\ Cardinality(Eligible) >= 2) =>
        LET body == result.response.body
        IN  /\ result.response.status = 200
            /\ Len(body) = Cardinality(Eligible)
            /\ ContributionTickers(body) = Eligible
            /\ \A i \in 1..(Len(body) - 1) :
                   (body[i].finite /\ body[i + 1].finite) =>
                       body[i].pct_contribution >= body[i + 1].pct_contribution

(***************************************************************************)
(* Performance attribution: calculate_performance_attribution              *)
(*                                                                         *)
(* A contribution weight * (last / first - 1) is kept exact as num / den   *)
(* with den the product of the first prices of all eligible tickers; the   *)
(* reported fields are in hundredths of a percent, pct_of_total in tenths. *)
(***************************************************************************)
ATTRIBUTION_MIN_OBS == 2        \* "if min_len < 2"

\* result.sort(key=contribution, reverse=True): stable, equal keys keep
\* their order
RECURSIVE InsertByContribution(_, _)
InsertByContribution(x, s) ==
    IF s = <<>> THEN <<x>>
    ELSE IF x.contribution > Head(s).contribution THEN <<x>> \o s
    ELSE <<Head(s)>> \o InsertByContribution(x, Tail(s))

\* mutant of SortByContribution: the list is returned in key order
SortByContribution_unsorted(s) == s

RECURSIVE SortByContribution(_)
SortByContribution(s) ==
    IF s = <<>> THEN <<>>
    ELSE InsertByContribution(s[Len(s)], SortByContribution(SubSeq(s, 1, Len(s) - 1)))

\* round(c / total_contribution * 100, 1) in tenths, 0 when the total is 0
PctOfTotal(num, total) ==
    IF total = 0 THEN 0
    ELSE ScaledDiv((IF total < 0 THEN -1 ELSE 1) * num, Abs(total), 3)

NoAttribution == [none |-> TRUE, total_num |-> 0, den |-> 1, total_return |-> 0, contributions |-> <<>>]

\* RiskEngine.calculate_performance_attribution
calculate_performance_attribution(h, w) ==
    LET items == EligibleItems(h, w)
    IN  IF items = <<>> THEN NoAttribution
        ELSE IF MinLen(h, items) < ATTRIBUTION_MIN_OBS THEN NoAttribution
        ELSE
          LET k == Len(items)
              min_len == MinLen(h, items)
              prices == [i \in 1..k |-> AlignedPrices(h[items[i].ticker], min_len)]
              first == [i \in 1..k |-> prices[i][1]]
              last == [i \in 1..k |-> prices[i][min_len]]
              den == ProdSeq(first)
              \* contribution * den
              num == [i \in 1..k |->
                        items[i].weight * (last[i] - first[i])
                          * ProdSeq([j \in 1..k |-> IF j = i THEN 1 ELSE first[j]])]
              total_contribution == SumSeq(num)
              result_list ==
                [i \in 1..k |->
                   [ticker |-> items[i].ticker,
                    num |-> num[i],
                    weight |-> items[i].weight * 10000,
                    position_return |-> ScaledDiv(last[i] - first[i], first[i], 4),
                    contribution |-> ScaledDiv(num[i], den, 4),
                    pct_of_total |-> PctOfTotal(num[i], total_contribution)]]
          IN  [none |-> FALSE,
               total_num |-> total_contribution,
               den |-> den,
               total_return |-> ScaledDiv(total_contribution, den, 4),
               contributions |-> SortByContribution(result_list)]

\* histories of one to MaxLen closes
AttributionLens == {1, ATTRIBUTION_MIN_OBS, 3, MaxLen}

AttributionPool(t) ==
    {<<>>} \cup
    {History(pat, len) :
        pat \in (IF t = "AAA" THEN {"flat", "rise", "zig"}
                 ELSE {"zig", "fall", "crash"}),
        len \in AttributionLens}

InitAttribution ==
    /\ \E a \in AttributionPool("AAA"), b \in AttributionPool("BBB") :
          histories = [t \in Stocks |-> IF t = "AAA" THEN a ELSE b]
    /\ weights \in WeightMaps
    /\ result = NoCall
    /\ rng = 0
    /\ InitIdle

CalculatePerformanceAttribution ==
    /\ result' = [op |-> "performance_attribution",
                  out |-> calculate_performance_attribution(histories, weights)]
    /\ UNCHANGED <<histories, weights, rng, calls, pc, req, loc, res>>

NextAttribution == CalculatePerformanceAttribution

SpecAttribution == InitAttribution /\ [][NextAttribution]_vars

\* the (ticker, weight) item of a weight map for a ticker
ItemOf(t) == CHOOSE it \in SeqRange(weights) : it.ticker = t

\* C22: every eligible position has one record whose contribution is
\* weight * (last price / first price - 1) over the window of the shortest
\* eligible history, right-aligned; pct_of_total is contribution / total * 100
\* (reported to one decimal) and 0 on every record when the total is 0; the
\* list is in non-increasing order of the reported contribution; with a
\* non-zero total the percentages add up to 100, each reported value being
\* rounded to one decimal.
C22_Attribution ==
    (result.op = "performance_attribution" /\ ~result.out.none) =>
        LET out == result.out
            recs == out.contributions
            n == Len(recs)
            total == SumSeq([i \in 1..n |-> recs[i].num])
        IN  /\ n = Cardinality(Eligible)
            /\ {recs[i].ticker : i \in 1..n} = Eligible
            /\ \A i \in 1..n :
                   LET win == LastK(histories[recs[i].ticker], ShortestEligible)
                       first == win[1].close
                       last == win[Len(win)].close
                   IN  /\ recs[i].num * first
                             = ItemOf(recs[i].ticker).weight * (last - first) * out.den
                       /\ 2 * Abs(10000 * recs[i].num - recs[i].contribution * out.den)
                             <= out.den
                       /\ IF total = 0 THEN recs[i].pct_of_total = 0
                          ELSE 2 * Abs(1000 * recs[i].num - recs[i].pct_of_total * total)
                                 <= Abs(total)
            /\ \A i \in 1..(n - 1) : recs[i].contribution >= recs[i + 1].contribution
            /\ total # 0 =>
                  2 * Abs(SumSeq([i \in 1..n |-> recs[i].pct_of_total]) - 1000) <= n

\* two positions with a non-zero total, the second key contributing most
C22_Witness ==
    /\ result.op = "performance_attribution"
    /\ ~result.out.none
    /\ Len(result.out.contributions) = 2
    /\ result.out.total_num # 0
    /\ result.out.contributions[1].contribution > result.out.contributions[2].contribution
    /\ result.out.contributions[1].ticker = EligibleItems(histories, weights)[2].ticker

(***************************************************************************)
(* Monte Carlo output shape.  A whole call is followed for small           *)
(* simulation counts; for counts around the sample cap the drawing of the  *)
(* terminal sample (lines 541-543) is followed one shuffle step at a time. *)
(***************************************************************************)
\* line 532: terminal_values = paths[:, -1], recomputed from the inputs of
\* a call that starts on generator state s
mc_terminal_values(h, w, simulations, horizon, s) ==
    LET est == mc_estimate(h, w)
        random_shocks == np_random_normal(np_random_seed(s, MC_SEED),
                                          simulations * horizon)
        paths == mc_paths(est, random_shocks.vals, simulations, horizon)
    IN  [p \in 1..simulations |-> paths[p][horizon + 1]]

\* simulation counts at and above the cap of the terminal sample
LargeSims == {SAMPLE_CAP, SAMPLE_CAP + 1}

\* terminal values of n paths, in hundredths, as the sampling step finds them
LargeTerminalValues(n) == [p \in 1..n |-> 10000 + 25 * ((p * p) % 11) - 100]

\* mutant of ShuffleSwap: the drawn entry is copied, not exchanged
ShuffleSwap_copy(perm, i, s) == [perm EXCEPT ![i] = perm[(s % i) + 1]]

\* one step of Shuffle: position i is exchanged with a drawn position
ShuffleSwap(perm, i, s) ==
    LET j == (s % i) + 1
    IN  [perm EXCEPT ![i] = perm[j], ![j] = perm[i]]

InitShape ==
    /\ \E in \in SimInputs : histories = in.h /\ weights = in.w
    /\ result = NoCall
    /\ rng \in EntropyStates
    /\ InitIdle

\* calculate_monte_carlo as one step, a horizon of 0 days included
MonteCarloShape ==
    /\ result.op = "none"
    /\ \E simulations \in 1..MaxSims, horizon \in 0..MaxHorizon :
          LET out == calculate_monte_carlo(histories, weights,
                                           simulations, horizon, rng)
          IN  /\ result' = [op |-> "monte_carlo", simulations |-> simulations,
                            horizon |-> horizon, out |-> out.ret,
                            terminal_values |->
                                IF out.ret.none THEN <<>>
                                ELSE mc_terminal_values(histories, weights,
                                                        simulations, horizon, rng)]
              /\ rng' = out.state
    /\ UNCHANGED <<histories, weights, calls, pc, req, loc, res>>

\* line 542: np.random.choice(simulations, min(500, simulations),
\* replace=False) is entered with the identity permutation
ChoiceBegin ==
    /\ result.op = "none"
    /\ \E simulations \in LargeSims :
          result' = [op |-> "np_random_choice", simulations |-> simulations,
                     perm |-> [i \in 1..simulations |-> i - 1],
                     i |-> simulations]
    /\ UNCHANGED <<histories, weights, rng, calls, pc, req, loc, res>>

ChoiceStep ==
    /\ result.op = "np_random_choice"
    /\ result.i > 1
    /\ result' = [result EXCEPT !.perm = ShuffleSwap(result.perm, result.i, rng),
                                !.i = result.i - 1]
    /\ rng' = RngNext(rng)
    /\ UNCHANGED <<histories, weights, calls, pc, req, loc, res>>

\* lines 542-543: the first min(500, simulations) entries of the permutation
\* index the terminal values
TerminalSample ==
    /\ result.op = "np_random_choice"
    /\ result.i <= 1
    /\ LET simulations == result.simulations
           terminal_values == LargeTerminalValues(simulations)
           sample_indices == SubSeq(result.perm, 1, Min2(SAMPLE_CAP, simulations))
       IN  result' = [op |-> "terminal_sample", simulations |-> simulations,
                      terminal_values |-> terminal_values,
                      sample_indices |-> sample_indices,
                      terminal_distribution |->
                          [k \in 1..Len(sample_indices) |->
                              terminal_values[sample_indices[k] + 1]]]
    /\ UNCHANGED <<histories, weights, rng, calls, pc, req, loc, res>>

NextShape == MonteCarloShape \/ ChoiceBegin \/ ChoiceStep \/ TerminalSample

SpecShape == InitShape /\ [][NextShape]_vars

\* number of positions of a sequence holding v
Count(s, v) == Cardinality({k \in 1..Len(s) : s[k] = v})

\* sample is drawn from values without repetition: no value is taken more
\* often than it occurs
DrawnWithoutRepetition(sample, values) ==
    \A v \in SeqRange(sample) : Count(sample, v) <= Count(values, v)

Bands(fan_chart) ==
    <<fan_chart.p1, fan_chart.p5, fan_chart.p25, fan_chart.p50,
      fan_chart.p75, fan_chart.p95, fan_chart.p99>>

\* C23: a simulation of N >= 1 paths over H days returns days 0 .. H, seven
\* percentile bands of H + 1 entries each whose day-0 entry is exactly 100,
\* and a terminal sample of min(500, N) entries drawn without repetition
\* from the N terminal values.
C23_MonteCarloShape ==
    /\ (result.op = "monte_carlo" /\ ~result.out.none) =>
          LET out == result.out
              H == result.horizon
              N == result.simulations
          IN  /\ out.fan_chart.days = [d \in 1..(H + 1) |-> d - 1]
              /\ \A b \in 1..7 :
                     /\ Len(Bands(out.fan_chart)[b]) = H + 1
                     /\ Bands(out.fan_chart)[b][1] = 10000
              /\ Len(result.terminal_values) = N
              /\ Len(out.terminal_distribution) = Min2(500, N)
              /\ DrawnWithoutRepetition(out.terminal_distribution,
                                        result.terminal_values)
    /\ result.op = "terminal_sample" =>
          /\ Len(result.terminal_distribution) = Min2(500, result.simulations)
          /\ Cardinality(SeqRange(result.sample_indices))
                = Len(result.sample_indices)
          /\ SeqRange(result.sample_indices) \subseteq 0..(result.simulations - 1)
          /\ DrawnWithoutRepetition(result.terminal_distribution,
                                    result.terminal_values)

\* a simulation of several paths over one or more days on a series with
\* volatility
C23_Witness ==
    /\ result.op = "monte_carlo"
    /\ ~result.out.none
    /\ result.simulations >= 2
    /\ result.horizon >= 1
    /\ result.out.fan_chart.p1 # result.out.fan_chart.p99
    /\ Len(result.out.terminal_distribution) = result.simulations

(***************************************************************************)
(* GIPS disclosure checklist: build_disclosure_checklist                   *)
(***************************************************************************)
YEAR_DAYS == 252                \* "n_days >= 252"
DISPERSION_PORTFOLIOS == 6      \* "num_portfolios >= 6"

\* mutant of HasYears: a history of exactly the required length does not pass
HasYears_more(n_days, years) == n_days > YEAR_DAYS * years

\* has_1y, has_5y, has_10y
HasYears(n_days, years) == n_days >= YEAR_DAYS * years

\* a GIPSDisclosureItem; a formatted detail is kept as its text and number
DisclosureItem(item, status, text, number) ==
    [item |-> item, status |-> status, detail |-> <<text, number>>]

\* GIPSService.build_disclosure_checklist; "" is the empty fee schedule
build_disclosure_checklist(n_days, has_benchmark, num_portfolios, fee_schedule, has_gross_net) ==
    LET has_1y == HasYears(n_days, 1)
        has_dispersion == num_portfolios >= DISPERSION_PORTFOLIOS
        has_fees == fee_schedule # ""
        has_5y == HasYears(n_days, 5)
        has_10y == HasYears(n_days, 10)
    IN  << DisclosureItem("Benchmark history complete",
                          IF has_benchmark THEN "pass" ELSE "fail",
                          IF has_benchmark THEN "SPY benchmark aligned"
                          ELSE "No benchmark data", 0),
           DisclosureItem("Minimum 1-year history",
                          IF has_1y THEN "pass" ELSE "warning",
                          "trading days available", n_days),
           DisclosureItem("Dispersion available (6+ portfolios)",
                          IF has_dispersion THEN "pass" ELSE "warning",
                          "portfolios in composite", num_portfolios),
           DisclosureItem("Fee schedule documented",
                          IF has_fees THEN "pass" ELSE "fail",
                          IF has_fees THEN fee_schedule ELSE "Not documented", 0),
           DisclosureItem("Gross & net returns calculated",
                          IF has_gross_net THEN "pass" ELSE "fail",
                          IF has_gross_net THEN "Both returns available"
                          ELSE "Missing returns", 0),
           DisclosureItem("5-year history (GIPS requirement)",
                          IF has_5y THEN "pass" ELSE "warning",
                          IF n_days >= YEAR_DAYS THEN "years available"
                          ELSE "< 1 year",
                          IF n_days >= YEAR_DAYS THEN n_days \div YEAR_DAYS ELSE 0),
           DisclosureItem("10-year history (full compliance)",
                          IF has_10y THEN "pass" ELSE "warning",
                          IF has_10y THEN "Full history available"
                          ELSE "of 10 years",
                          IF has_10y THEN 0 ELSE n_days \div YEAR_DAYS) >>

\* day counts around the one, five and ten year marks
DayCounts ==
    {0, MaxLen} \cup UNION { {YEAR_DAYS * y - 1, YEAR_DAYS * y, YEAR_DAYS * y + 1} :
                               y \in {1, 5, 10} }

PortfolioCounts == {1, DISPERSION_PORTFOLIOS - 1, DISPERSION_PORTFOLIOS, NUM_PORTFOLIOS}

FeeSchedules == {"", "50 bps annual management fee"}

InitChecklist ==
    /\ histories = [t \in Stocks |-> <<>>]
    /\ weights = <<>>
    /\ result = NoCall
    /\ rng = 0
    /\ InitIdle

BuildDisclosureChecklist ==
    /\ \E n_days \in DayCounts, has_benchmark \in BOOLEAN,
          num_portfolios \in PortfolioCounts, fee_schedule \in FeeSchedules,
          has_gross_net \in BOOLEAN :
            result' = [op |-> "build_disclosure_checklist",
                       n_days |-> n_days,
                       has_benchmark |-> has_benchmark,
                       num_portfolios |-> num_portfolios,
                       fee_schedule |-> fee_schedule,
                       has_gross_net |-> has_gross_net,
                       out |-> build_disclosure_checklist(
                                   n_days, has_benchmark, num_portfolios,
                                   fee_schedule, has_gross_net)]
    /\ UNCHANGED <<histories, weights, rng, calls, pc, req, loc, res>>

NextChecklist == BuildDisclosureChecklist

SpecChecklist == InitChecklist /\ [][NextChecklist]_vars

\* the fixed order of the checklist
ChecklistOrder ==
    << "Benchmark history complete", "Minimum 1-year history",
       "Dispersion available (6+ portfolios)", "Fee schedule documented",
       "Gross & net returns calculated", "5-year history (GIPS requirement)",
       "10-year history (full compliance)" >>

Passes(k) == result.out[k].status = "pass"

\* C24: the checklist always has the seven items benchmark, 1-year history,
\* 6 portfolios, fee schedule, gross and net, 5-year history, 10-year
\* history, in this order; each passes exactly on its own input
\* (has_benchmark, n_days >= 252, num_portfolios >= 6, non-empty fee
\* schedule, has_gross_net, n_days >= 1260, n_days >= 2520), so the 10-year
\* pass implies the 5-year pass, which implies the 1-year pass.
C24_DisclosureChecklist ==
    result.op = "build_disclosure_checklist" =>
        /\ Len(result.out) = 7
        /\ \A k \in 1..7 :
               /\ result.out[k].item = ChecklistOrder[k]
               /\ result.out[k].status \in {"pass", "warning", "fail"}
        /\ Passes(1) <=> result.has_benchmark
        /\ Passes(2) <=> result.n_days >= 252
        /\ Passes(3) <=> result.num_portfolios >= 6
        /\ Passes(4) <=> result.fee_schedule # ""
        /\ Passes(5) <=> result.has_gross_net
        /\ Passes(6) <=> result.n_days >= 1260
        /\ Passes(7) <=> result.n_days >= 2520
        /\ Passes(7) => Passes(6)
        /\ Passes(6) => Passes(2)

\* a history of exactly five years: the 5-year item passes, the 10-year
\* item does not
C24_Witness ==
    /\ result.op = "build_disclosure_checklist"
    /\ result.n_days = 1260
    /\ Passes(6) /\ ~Passes(7)
    /\ ~result.has_benchmark

(***************************************************************************)
(* The engine and its arguments: sequences of engine calls on the same     *)
(* histories and weight map                                                *)
(***************************************************************************)
\* mutant of ArgumentsAfterCall: the alignment `histories[ticker][-min_len:]`
\* written back into the histories
ArgumentsAfterCall_aligned(h, w) == [histories |-> [t \in DOMAIN h |-> IF h[t] = <<>> \/ EligibleItems(h, w) = <<>> THEN h[t] ELSE LastK(h[t], Min2(Len(h[t]), MinLen(h, EligibleItems(h, w))))], weights |-> w]

\* the histories and the weight map after an engine call: the engine reads
\* them into new lists and arrays (`[d["close"] for d in ...]`, np.array)
\* and assigns to neither
ArgumentsAfterCall(h, w) == [histories |-> h, weights |-> w]

NoWhatIf == [none |-> TRUE]

\* RiskEngine.calculate_what_if
calculate_what_if(h, original_weights, modified_weights) ==
    LET original_returns == calculate_portfolio_returns(h, original_weights).ret
        modified_returns == calculate_portfolio_returns(h, modified_weights).ret
    IN  IF original_returns.none \/ modified_returns.none THEN NoWhatIf
        ELSE LET original == calculate_risk_metrics(original_returns)
                 modified == calculate_risk_metrics(modified_returns)
             IN  [none |-> FALSE,
                  original |-> original,
                  modified |-> modified,
                  delta |-> [finite |-> original.finite /\ modified.finite,
                             var_95 |-> modified.var_95 - original.var_95,
                             var_99 |-> modified.var_99 - original.var_99,
                             cvar_95 |-> modified.cvar_95 - original.cvar_95,
                             volatility |-> modified.volatility - original.volatility,
                             sharpe |-> modified.sharpe - original.sharpe,
                             max_drawdown |-> modified.max_drawdown
                                                - original.max_drawdown]]

\* weight maps of a what-if request after its changes are applied
ModifiedWeights ==
    { <<[ticker |-> "AAA", weight |-> 1]>>,
      <<[ticker |-> "AAA", weight |-> 1], [ticker |-> "BBB", weight |-> 2]>> }

\* an engine call entered in the log with the arguments it was given
LoggedCall(op, args, out) ==
    [op |-> op, args |-> args, histories |-> histories, weights |-> weights,
     out |-> out]

\* the call's effect on the caller's histories and weights, and the log
CallDone(call) ==
    /\ result' = call
    /\ calls' = Append(calls, call)
    /\ histories' = ArgumentsAfterCall(histories, weights).histories
    /\ weights' = ArgumentsAfterCall(histories, weights).weights

PurePortfolioReturns ==
    /\ Len(calls) < MaxCalls
    /\ CallDone(LoggedCall("calculate_portfolio_returns", <<>>,
                           calculate_portfolio_returns(histories, weights).ret))
    /\ UNCHANGED <<rng, pc, req, loc, res>>

PureWhatIf ==
    /\ Len(calls) < MaxCalls
    /\ \E modified_weights \in ModifiedWeights :
          CallDone(LoggedCall("calculate_what_if", <<modified_weights>>,
                              calculate_what_if(histories, weights, modified_weights)))
    /\ UNCHANGED <<rng, pc, req, loc, res>>

PurePortfolioTwr ==
    /\ Len(calls) < MaxCalls
    /\ CallDone(LoggedCall("calculate_portfolio_twr", <<>>,
                           calculate_portfolio_twr(histories, weights)))
    /\ UNCHANGED <<rng, pc, req, loc, res>>

PureMonteCarlo ==
    /\ Len(calls) < MaxCalls
    /\ \E simulations \in {1, 2} :
          LET out == calculate_monte_carlo(histories, weights, simulations, 1, rng)
          IN  /\ CallDone(LoggedCall("calculate_monte_carlo",
                                     <<simulations, 1>>, out.ret))
              /\ rng' = out.state
    /\ UNCHANGED <<pc, req, loc, res>>

NextPure == PurePortfolioReturns \/ PureWhatIf \/ PurePortfolioTwr \/ PureMonteCarlo

SpecPure == InitMC /\ [][NextPure]_vars

RECURSIVE LinkedGross(_)
LinkedGross(recs) ==
    IF recs = <<>> THEN 10000
    ELSE RoundDiv(LinkedGross(SubSeq(recs, 1, Len(recs) - 1))
                    * (10000 + RoundDiv(recs[Len(recs)].gross_return, 100)),
                  10000)

\* 1 + cumulative_gross of calculate_gips_metrics, in 1/10000
WholePeriodGross(portfolio_values) ==
    10000 + ScaledDiv(portfolio_values[Len(portfolio_values)] - portfolio_values[1],
                      portfolio_values[1], 4)

\* C26: for a series of positive values the monthly gross returns linked
\* geometrically give the whole-period return: the product of
\* (1 + monthly gross) over all records equals last value / first value
\* (compared to within the rounding of one unit per record).
C26_LinkingLossless ==
    (/\ result.op = "gips_period_returns"
     /\ ~result.none
     /\ \A i \in 1..Len(result.portfolio_values) : result.portfolio_values[i] > 0) =>
        Abs(LinkedGross(result.out) - WholePeriodGross(result.portfolio_values))
            <= Len(result.out) + 1

(***************************************************************************)
(* Risk decomposition: finite figures adding up to the whole               *)
(***************************************************************************)
\* C27: for every input that passes the eligibility checks, two or more
\* eligible instruments, constant prices and weights of zero combined
\* volatility included, every figure of every contribution record is a
\* finite number and the pct_contribution values add up to 100 (to within
\* the rounding of one hundredth per record).
C27_DecompositionFinite ==
    (/\ result.op = "get_risk_contributions"
     /\ ~InsufficientData
     /\ Cardinality(Eligible) >= 2) =>
        LET body == result.response.body
        IN  /\ result.response.status = 200
            /\ \A i \in 1..Len(body) : body[i].finite /\ body[i].weight_finite
            /\ Abs(SumSeq([i \in 1..Len(body) |-> body[i].pct_contribution]) - 10000)
                  <= Len(body)

\* the same statement where the weights do not add up to zero and the
\* portfolio has volatility
C27_WithVolatility ==
    (/\ result.op = "get_risk_contributions"
     /\ ~InsufficientData
     /\ Cardinality(Eligible) >= 2
     /\ Len(result.response.body) >= 1
     /\ result.response.body[1].finite) =>
        LET body == result.response.body
        IN  /\ \A i \in 1..Len(body) : body[i].finite /\ body[i].weight_finite
            /\ Abs(SumSeq([i \in 1..Len(body) |-> body[i].pct_contribution]) - 10000)
                  <= Len(body)

(***************************************************************************)
(* GIPS drawdown series: calculate_drawdown_series                         *)
(***************************************************************************)
\* mutant of RunningMax: the peak of the whole series
RunningMax_overall(portfolio_values, i) == MaxSeq(portfolio_values)

\* running_max after observation i (1-based)
RunningMax(portfolio_values, i) == MaxSeq(SubSeq(portfolio_values, 1, i))

\* GIPSService.calculate_drawdown_series: the points, max_drawdown and
\* current_drawdown in hundredths of a percent
calculate_drawdown_series(portfolio_values, dates) ==
    IF portfolio_values = <<>>
    THEN [drawdowns |-> <<>>, max_drawdown |-> 0, current_drawdown |-> 0]
    ELSE LET n == Len(portfolio_values)
             \* dd in 1/1000000
             dd == [i \in 1..n |->
                      RatioReturn(RunningMax(portfolio_values, i), portfolio_values[i])]
             drawdowns == [i \in 1..n |->
                             [date |-> dates[i], drawdown |-> RoundDiv(dd[i], 100)]]
             max_dd == Min2(0, MinSeq(dd))
         IN  [drawdowns |-> drawdowns,
              max_drawdown |-> RoundDiv(max_dd, 100),
              current_drawdown |-> drawdowns[n].drawdown]

\* lines 427-432 and 502-504 of calculate_gips_metrics
GipsDrawdownSeries ==
    /\ LET twr == calculate_portfolio_twr(histories, weights)
       IN  result' = [op |-> "gips_drawdown_series",
                      none |-> twr.none,
                      portfolio_values |-> twr.values,
                      dates |-> twr.dates,
                      out |-> IF twr.none THEN NoCall
                              ELSE calculate_drawdown_series(twr.values, twr.dates)]
    /\ UNCHANGED <<histories, weights, rng, calls, pc, req, loc, res>>

NextDrawdown == GipsDrawdownSeries

SpecDrawdown == InitReport /\ [][NextDrawdown]_vars

\* the running peak of the value series at observation i
Peak(i) == MaxSeq(SubSeq(result.portfolio_values, 1, i))

\* d hundredths of a percent is value / peak - 1 rounded, peak /= 0
IsDrawdownOf(d, value, peak) ==
    2 * Abs(10000 * (value - peak) - d * peak) <= Abs(peak)

\* the drawdown series with is_point(d, value, peak) telling whether d is
\* the point of a value under a peak
DrawdownSeries(is_point(_, _, _)) ==
    (result.op = "gips_drawdown_series" /\ ~result.none) =>
        LET out == result.out
            n == Len(result.portfolio_values)
            series == [i \in 1..n |-> out.drawdowns[i].drawdown]
        IN  /\ Len(out.drawdowns) = n
            /\ \A i \in 1..n :
                   /\ out.drawdowns[i].date = result.dates[i]
                   /\ is_point(series[i], result.portfolio_values[i], Peak(i))
                   /\ series[i] <= 0
            /\ out.max_drawdown = MinSeq(series)
            /\ out.current_drawdown = series[n]
            /\ out.max_drawdown <= out.current_drawdown
            /\ out.current_drawdown <= 0

\* C28: calculate_drawdown_series returns one point per observation in date
\* order, each value / running peak - 1 and so at most 0; max_drawdown is
\* the minimum of the series, current_drawdown its last point, and
\* max_drawdown <= current_drawdown <= 0.
C28_DrawdownSeriesAnyPeak ==
    DrawdownSeries(LAMBDA d, value, peak : peak # 0 /\ IsDrawdownOf(d, value, peak))

\* C28 with the sentinel: a point is value / running peak - 1 when the
\* running peak is positive and 0 when it is zero or negative.
C28_DrawdownSeries ==
    DrawdownSeries(LAMBDA d, value, peak :
                      IF peak > 0 THEN IsDrawdownOf(d, value, peak) ELSE d = 0)

\* a series of positive values that fell from its peak and partly recovered
C28_Witness ==
    /\ result.op = "gips_drawdown_series"
    /\ ~result.none
    /\ result.portfolio_values[1] > 0
    /\ result.out.current_drawdown < 0
    /\ \E i, j \in 1..Len(result.out.drawdowns) :
          /\ i < j
          /\ result.out.drawdowns[i].drawdown < result.out.drawdowns[j].drawdown

(***************************************************************************)
(* Market data cache: refresh_histories, clear_cache and get_histories     *)
(*                                                                         *)
(* Thread t1 serves POST /portfolios/{id}/refresh-data, thread t2 a        *)
(* request that reads histories through get_histories.  A thread can be    *)
(* pre-empted between any two Valkey commands and provider calls.  Here    *)
(* histories is the content of the "history:{ticker}" keys (<<>> for a     *)
(* missing key) and result holds the other keys of the store and a clock   *)
(* that counts the refresh begin and the provider calls; every downloaded  *)
(* history carries the clock value of its download in `fetched`.           *)
(***************************************************************************)
\* tickers of the refreshed portfolio: its positions, then the benchmark
RefreshTickers == <<"AAA", "SPY">>

\* tickers read by the other request
ReadTickers == <<"AAA">>

\* the keys clear_cache deletes for a ticker, in its order
KeyKinds == <<"history", "quote", "info", "volume">>

\* the (ticker, kind) keys of the loops of clear_cache, in order
ClearKeys(tickers) ==
    [k \in 1..(Len(tickers) * Len(KeyKinds)) |->
        <<tickers[((k - 1) \div Len(KeyKinds)) + 1],
          KeyKinds[((k - 1) % Len(KeyKinds)) + 1]>>]

\* a history downloaded at clock value fetched
DownloadedHistory(fetched) == <<[date |-> 1, close |-> 100, fetched |-> fetched]>>

KeyExists(key) ==
    IF key[2] = "history" THEN histories[key[1]] # <<>> ELSE key \in result.other

InitCache ==
    /\ histories \in [SeqRange(RefreshTickers) -> {<<>>, DownloadedHistory(0)}]
    /\ weights = <<>>
    /\ \E other \in { {}, {<<"AAA", "quote">>},
                       {<<"AAA", "quote">>, <<"SPY", "info">>, <<"SPY", "volume">>} } :
          result = [op |-> "valkey", clock |-> 0, other |-> other]
    /\ rng = 0
    /\ InitIdle

\* the locals of get_histories at its entry
GetHistoriesLocals(op, tickers, began, keys_deleted, deleted) ==
    [op |-> op, tickers |-> tickers, i |-> 1,
     results |-> [t \in SeqRange(tickers) |-> <<>>],
     uncached |-> <<>>, data |-> <<>>, j |-> 1, failed |-> {},
     began |-> began, keys_deleted |-> keys_deleted, deleted |-> deleted]

\* refresh_histories is entered
RefreshBegin ==
    /\ pc["t1"] = "idle"
    /\ pc' = [pc EXCEPT !["t1"] = "clear_cache"]
    /\ loc' = [loc EXCEPT !["t1"] = [op |-> "refresh_histories",
                                     began |-> result.clock + 1,
                                     todo |-> ClearKeys(RefreshTickers),
                                     keys_deleted |-> 0, deleted |-> {}]]
    /\ result' = [result EXCEPT !.clock = @ + 1]
    /\ UNCHANGED <<histories, weights, rng, calls, req, res>>

\* clear_cache: one `if self.redis.delete(key): keys_deleted += 1`
ClearCacheDelete ==
    /\ pc["t1"] = "clear_cache"
    /\ loc["t1"].todo # <<>>
    /\ LET key == Head(loc["t1"].todo)
           existed == KeyExists(key)
       IN  /\ histories' = IF key[2] = "history"
                           THEN [histories EXCEPT ![key[1]] = <<>>]
                           ELSE histories
           /\ result' = [result EXCEPT !.other = @ \ {key}]
           /\ loc' = [loc EXCEPT !["t1"].todo = Tail(@),
                                 !["t1"].keys_deleted = IF existed THEN @ + 1 ELSE @,
                                 !["t1"].deleted = IF existed THEN @ \cup {key} ELSE @]
    /\ UNCHANGED <<weights, rng, calls, pc, req, res>>

\* clear_cache returns and refresh_histories calls get_histories
ClearCacheReturn ==
    /\ pc["t1"] = "clear_cache"
    /\ loc["t1"].todo = <<>>
    /\ pc' = [pc EXCEPT !["t1"] = "lookup"]
    /\ loc' = [loc EXCEPT !["t1"] =
                  GetHistoriesLocals("refresh_histories", RefreshTickers,
                                     loc["t1"].began, loc["t1"].keys_deleted,
                                     loc["t1"].deleted)]
    /\ UNCHANGED <<histories, weights, result, rng, calls, req, res>>

\* another request calls get_histories
GetHistoriesBegin ==
    /\ pc["t2"] = "idle"
    /\ pc' = [pc EXCEPT !["t2"] = "lookup"]
    /\ loc' = [loc EXCEPT !["t2"] =
                  GetHistoriesLocals("get_histories", ReadTickers, 0, 0, {})]
    /\ UNCHANGED <<histories, weights, result, rng, calls, req, res>>

\* lines 63-69: one `cached = self.redis.get(cache_key)` of the first loop
Lookup(t) ==
    /\ pc[t] = "lookup"
    /\ LET l == loc[t]
           ticker == l.tickers[l.i]
           cached == histories[ticker]
           l2 == IF cached # <<>>
                 THEN [l EXCEPT !.results[ticker] = cached, !.i = @ + 1]
                 ELSE [l EXCEPT !.uncached = Append(@, ticker), !.i = @ + 1]
       IN  /\ loc' = [loc EXCEPT ![t] = l2]
           /\ pc' = [pc EXCEPT ![t] =
                        IF l2.i <= Len(l.tickers) THEN "lookup"
                        ELSE IF l2.uncached = <<>> THEN "return"
                        ELSE "download"]
    /\ UNCHANGED <<histories, weights, result, rng, calls, req, res>>

\* lines 71-79 and 102-104: yf.download of the uncached tickers; it raises,
\* or returns closes for some tickers and nothing for the others
Download(t) ==
    /\ pc[t] = "download"
    /\ LET l == loc[t]
           uncached == SeqRange(l.uncached)
       IN  \/ /\ loc' = [loc EXCEPT ![t].failed = uncached]
              /\ pc' = [pc EXCEPT ![t] = "return"]
           \/ \E empty \in SUBSET uncached :
                 /\ loc' = [loc EXCEPT ![t].data =
                               [ticker \in uncached |->
                                   IF ticker \in empty THEN <<>>
                                   ELSE DownloadedHistory(result.clock + 1)]]
                 /\ pc' = [pc EXCEPT ![t] = "store"]
    /\ result' = [result EXCEPT !.clock = @ + 1]
    /\ UNCHANGED <<histories, weights, rng, calls, req, res>>

\* lines 81-101: one round of the second loop, with its `self.redis.setex`
Store(t) ==
    /\ pc[t] = "store"
    /\ LET l == loc[t]
           ticker == l.uncached[l.j]
           hist_data == l.data[ticker]
       IN  /\ histories' = IF hist_data # <<>>
                           THEN [histories EXCEPT ![ticker] = hist_data]
                           ELSE histories
           /\ loc' = [loc EXCEPT ![t].results[ticker] = hist_data,
                                 ![t].failed = IF hist_data # <<>> THEN @
                                               ELSE @ \cup {ticker},
                                 ![t].j = @ + 1]
           /\ pc' = [pc EXCEPT ![t] = IF l.j + 1 <= Len(l.uncached) THEN "store"
                                      ELSE "return"]
    /\ UNCHANGED <<weights, result, rng, calls, req, res>>

\* get_histories returns; refresh_histories turns the result into the
\* number of observations per ticker, 0 for None
Return(t) ==
    /\ pc[t] = "return"
    /\ LET l == loc[t]
       IN  res' = [res EXCEPT ![t] =
                     [op |-> l.op, results |-> l.results, failed |-> l.failed,
                      began |-> l.began, keys_deleted |-> l.keys_deleted,
                      deleted |-> l.deleted,
                      status |-> [ticker \in SeqRange(l.tickers) |->
                                     Len(l.results[ticker])]]]
    /\ pc' = [pc EXCEPT ![t] = "done"]
    /\ UNCHANGED <<histories, weights, result, rng, calls, req, loc>>

NextCache ==
    \/ RefreshBegin
    \/ ClearCacheDelete
    \/ ClearCacheReturn
    \/ GetHistoriesBegin
    \/ \E t \in Threads : Lookup(t)
    \/ \E t \in Threads : Download(t)
    \/ \E t \in Threads : Store(t)
    \/ \E t \in Threads : Return(t)

SpecCache == InitCache /\ [][NextCache]_vars

\* C29: once refresh_histories has returned, every history entry of its
\* tickers in the cache was fetched from the provider after the refresh
\* began, a ticker whose fetch failed has status 0 and no entry, whatever
\* the interleaving with a concurrent get_histories; clear_cache returned
\* the number of keys it found and deleted.
C29_RefreshFreshness ==
    pc["t1"] = "done" =>
        /\ \A t \in SeqRange(RefreshTickers) :
               histories[t] # <<>> => histories[t][1].fetched > res["t1"].began
        /\ \A t \in res["t1"].failed :
               res["t1"].status[t] = 0 /\ histories[t] = <<>>
        /\ res["t1"].keys_deleted = Cardinality(res["t1"].deleted)

\* the same statement while no other request has started
C29_RefreshAlone ==
    (pc["t1"] = "done" /\ pc["t2"] = "idle") =>
        /\ \A t \in SeqRange(RefreshTickers) :
               histories[t] # <<>> => histories[t][1].fetched > res["t1"].began
        /\ \A t \in res["t1"].failed :
               res["t1"].status[t] = 0 /\ histories[t] = <<>>
        /\ res["t1"].keys_deleted = Cardinality(res["t1"].deleted)

(***************************************************************************)
(* Investment guidelines: GuidelinesService.  A position weight is in      *)
(* 1/10000 of the portfolio, so `pos["weight"] * 100` is in hundredths of  *)
(* a percent; limits, current values and headroom are in hundredths of a   *)
(* percent (a position count is a plain number); headroom_pct and          *)
(* breach_pct are in hundredths of a percent.                              *)
(***************************************************************************)
WARNING_THRESHOLD == 90         \* "WARNING_THRESHOLD = 0.90", in percent
RANGE_WARNING_PCT == 10         \* "if headroom_pct < 10"
FULL_WEIGHT == 10000            \* "guideline.limit_value_upper or 100"
TOP_N == 5                      \* "sorted_positions[:5]"

\* a GuidelineDefinition; None is 0 for limit_value_upper and "" for
\* scope_filter
GuidelineDefinition(id, limit_type, limit_value, limit_value_upper, scope, scope_filter) ==
    [id |-> id, limit_type |-> limit_type, limit_value |-> limit_value,
     limit_value_upper |-> limit_value_upper, scope |-> scope,
     scope_filter |-> scope_filter]

DEFAULT_GUIDELINES ==
    << GuidelineDefinition("single_position_max", "max_weight", 1000, 0, "position", ""),
       GuidelineDefinition("sector_max", "max_weight", 3000, 0, "sector", ""),
       GuidelineDefinition("top5_concentration", "max_weight", 5000, 0, "portfolio", "top5"),
       GuidelineDefinition("cash_min", "min_weight", 200, 0, "asset_class", "cash"),
       GuidelineDefinition("single_issuer", "max_weight", 500, 0, "issuer", ""),
       GuidelineDefinition("max_positions", "max_count", 50, 0, "portfolio", "position_count"),
       GuidelineDefinition("equity_range", "range", 4000, 8000, "asset_class", "equity") >>

\* the entries of ASSET_CLASS_MAP for the tickers drawn
ASSET_CLASS_MAP == [CASH |-> "cash", BND |-> "fixed_income", SPY |-> "equity"]

\* GuidelinesService._get_asset_class: ASSET_CLASS_MAP.get(ticker, "equity")
get_asset_class(ticker) ==
    IF ticker \in DOMAIN ASSET_CLASS_MAP THEN ASSET_CLASS_MAP[ticker] ELSE "equity"

\* sector_map.get(ticker, "Unknown")
SectorOf(sector_map, ticker) ==
    IF ticker \in DOMAIN sector_map THEN sector_map[ticker] ELSE "Unknown"

\* round(headroom / base * 100, 2), and 0 when the base is not positive
HeadroomPct(headroom, base) ==
    IF base > 0 THEN RoundDiv(headroom * 10000, base) ELSE 0

\* `headroom_pct < (1 - self.WARNING_THRESHOLD) * 100` on the unrounded
\* headroom_pct, which is 0 when the limit is not positive
BelowWarning(headroom, limit_value) ==
    IF limit_value > 0
    THEN headroom * 100 < (100 - WARNING_THRESHOLD) * limit_value
    ELSE 0 < 100 - WARNING_THRESHOLD

\* a GuidelineBreachDetail; None is ""
GuidelineBreachDetail(ticker, sector, current_value, limit_value) ==
    [ticker |-> ticker, sector |-> sector, current_value |-> current_value,
     limit_value |-> limit_value,
     breach_amount |-> Abs(current_value - limit_value),
     breach_pct |-> RoundDiv(Abs(current_value - limit_value) * 10000, limit_value)]

\* a GuidelineStatus; breach_details None is <<>>
GuidelineStatus(guideline, status, current_value, headroom, headroom_pct, breach_details) ==
    [guideline |-> guideline, status |-> status, current_value |-> current_value,
     headroom |-> headroom, headroom_pct |-> headroom_pct,
     breach_details |-> breach_details]

\* the largest of the values and 0: `max_weight = 0` raised by every larger
\* value
MaxFromZero(values) ==
    CHOOSE m \in SeqRange(values) \cup {0} :
        \A v \in SeqRange(values) \cup {0} : m >= v

\* the sum of the values, added up by halves
RECURSIVE TotalBetween(_, _, _)
TotalBetween(values, lo, hi) ==
    IF lo > hi THEN 0
    ELSE IF lo = hi THEN values[lo]
    ELSE TotalBetween(values, lo, (lo + hi) \div 2)
            + TotalBetween(values, (lo + hi) \div 2 + 1, hi)

Total(values) == TotalBetween(values, 1, Len(values))

\* GuidelinesService._check_position_limit
check_position_limit(guideline, positions) ==
    LET weight_pct == [i \in 1..Len(positions) |-> positions[i].weight]
        max_weight == MaxFromZero(weight_pct)
        over == SelectSeq(positions, LAMBDA pos : pos.weight > guideline.limit_value)
        breaches == [i \in 1..Len(over) |->
                        GuidelineBreachDetail(over[i].ticker, "", over[i].weight,
                                              guideline.limit_value)]
        headroom == guideline.limit_value - max_weight
        status == IF breaches # <<>> THEN "breach"
                  ELSE IF BelowWarning(headroom, guideline.limit_value) THEN "warning"
                  ELSE "compliant"
    IN  GuidelineStatus(guideline, status, max_weight, headroom,
                        HeadroomPct(headroom, guideline.limit_value), breaches)

\* the keys of sector_weights in the order the loop inserts them: the sector
\* of every position other than CASH, at its first occurrence
SectorsSeen(positions, sector_map) ==
    LET sector(i) == SectorOf(sector_map, positions[i].ticker)
        first == SelectSeq([i \in 1..Len(positions) |-> i],
                           LAMBDA i : /\ positions[i].ticker # "CASH"
                                      /\ \A j \in 1..(i - 1) :
                                            \/ positions[j].ticker = "CASH"
                                            \/ sector(j) # sector(i))
    IN  [k \in 1..Len(first) |-> sector(first[k])]

\* sector_weights[sector]
SectorWeight(positions, sector_map, sector) ==
    Total([i \in 1..Len(positions) |->
               IF /\ positions[i].ticker # "CASH"
                  /\ SectorOf(sector_map, positions[i].ticker) = sector
               THEN positions[i].weight ELSE 0])

\* GuidelinesService._check_sector_limit
check_sector_limit(guideline, positions, sector_map) ==
    LET sectors == SectorsSeen(positions, sector_map)
        sector_weights == [i \in 1..Len(sectors) |->
                              SectorWeight(positions, sector_map, sectors[i])]
        max_sector_weight == MaxFromZero(sector_weights)
        over == SelectSeq([i \in 1..Len(sectors) |->
                              [sector |-> sectors[i], weight |-> sector_weights[i]]],
                          LAMBDA sw : sw.weight > guideline.limit_value)
        breaches == [i \in 1..Len(over) |->
                        GuidelineBreachDetail("", over[i].sector, over[i].weight,
                                              guideline.limit_value)]
        headroom == guideline.limit_value - max_sector_weight
        status == IF breaches # <<>> THEN "breach"
                  ELSE IF BelowWarning(headroom, guideline.limit_value) THEN "warning"
                  ELSE "compliant"
    IN  GuidelineStatus(guideline, status, max_sector_weight, headroom,
                        HeadroomPct(headroom, guideline.limit_value), breaches)

\* sorted(positions, key=lambda x: x["weight"], reverse=True): a position
\* comes after the heavier ones and after the earlier ones of its weight
SortByWeight(positions) ==
    LET n == Len(positions)
        rank == [i \in 1..n |->
                    1 + Cardinality({j \in 1..n :
                            \/ positions[j].weight > positions[i].weight
                            \/ /\ positions[j].weight = positions[i].weight
                               /\ j < i})]
    IN  [r \in 1..n |-> positions[CHOOSE i \in 1..n : rank[i] = r]]

\* GuidelinesService._check_top5_limit; the joined tickers of the breach
\* detail are kept as their sequence
check_top5_limit(guideline, positions) ==
    LET sorted_positions == SortByWeight(positions)
        top5 == SubSeq(sorted_positions, 1, Min2(TOP_N, Len(sorted_positions)))
        top5_weight == Total([i \in 1..Len(top5) |-> top5[i].weight])
        headroom == guideline.limit_value - top5_weight
        breached == top5_weight > guideline.limit_value
        status == IF breached THEN "breach"
                  ELSE IF BelowWarning(headroom, guideline.limit_value) THEN "warning"
                  ELSE "compliant"
    IN  GuidelineStatus(guideline, status, top5_weight, headroom,
                        HeadroomPct(headroom, guideline.limit_value),
                        IF breached
                        THEN << GuidelineBreachDetail(
                                    [i \in 1..Len(top5) |-> top5[i].ticker], "",
                                    top5_weight, guideline.limit_value) >>
                        ELSE <<>>)

\* the summed weight of the positions of an asset class
ClassWeight(positions, class) ==
    Total([i \in 1..Len(positions) |->
               IF get_asset_class(positions[i].ticker) = class
               THEN positions[i].weight ELSE 0])

\* GuidelinesService._check_cash_minimum
check_cash_minimum(guideline, positions) ==
    LET cash_weight == ClassWeight(positions, "cash")
        headroom == cash_weight - guideline.limit_value
        breached == cash_weight < guideline.limit_value
        status == IF breached THEN "breach"
                  ELSE IF BelowWarning(headroom, guideline.limit_value) THEN "warning"
                  ELSE "compliant"
    IN  GuidelineStatus(guideline, status, cash_weight, headroom,
                        HeadroomPct(headroom, guideline.limit_value),
                        IF breached
                        THEN << GuidelineBreachDetail("CASH", "", cash_weight,
                                                      guideline.limit_value) >>
                        ELSE <<>>)

\* GuidelinesService._check_position_count
check_position_count(guideline, positions) ==
    LET position_count == Len(SelectSeq(positions, LAMBDA p : p.ticker # "CASH"))
        headroom == guideline.limit_value - position_count
        breached == position_count > guideline.limit_value
        status == IF breached THEN "breach"
                  ELSE IF BelowWarning(headroom, guideline.limit_value) THEN "warning"
                  ELSE "compliant"
    IN  GuidelineStatus(guideline, status, position_count, headroom,
                        HeadroomPct(headroom, guideline.limit_value),
                        IF breached
                        THEN << GuidelineBreachDetail("", "", position_count,
                                                      guideline.limit_value) >>
                        ELSE <<>>)

\* GuidelinesService._check_asset_class_range: the status is decided on the
\* headroom as a share of the width of the range, the headroom_pct returned
\* is the size of the headroom as a share of half the width
check_asset_class_range(guideline, positions) ==
    LET target_class == guideline.scope_filter
        class_weight == ClassWeight(positions, target_class)
        lower == guideline.limit_value
        upper == IF guideline.limit_value_upper # 0
                 THEN guideline.limit_value_upper ELSE FULL_WEIGHT
        below == class_weight < lower
        above == ~below /\ class_weight > upper
        headroom == IF below THEN class_weight - lower
                    ELSE IF above THEN upper - class_weight
                    ELSE Min2(class_weight - lower, upper - class_weight)
        near == IF upper - lower > 0
                THEN headroom * 100 < RANGE_WARNING_PCT * (upper - lower)
                ELSE 0 < RANGE_WARNING_PCT
        status == IF below \/ above THEN "breach"
                  ELSE IF near THEN "warning" ELSE "compliant"
        headroom_pct == IF upper - lower > 0
                        THEN RoundDiv(Abs(headroom) * 2 * 10000, upper - lower)
                        ELSE 0
    IN  GuidelineStatus(guideline, status, class_weight, headroom, headroom_pct,
                        IF below
                        THEN << GuidelineBreachDetail("", target_class,
                                                      class_weight, lower) >>
                        ELSE IF above
                        THEN << GuidelineBreachDetail("", target_class,
                                                      class_weight, upper) >>
                        ELSE <<>>)

\* GuidelinesService._check_issuer_limit
check_issuer_limit(guideline, positions) == check_position_limit(guideline, positions)

\* the guidelines check_guidelines has a check for; the others are skipped
\* by `continue`
HasCheck(guideline) ==
    \/ guideline.scope \in {"position", "sector", "issuer"}
    \/ guideline.scope = "portfolio"
          /\ guideline.scope_filter \in {"top5", "position_count"}
    \/ guideline.scope = "asset_class"
          /\ (guideline.scope_filter = "cash" \/ guideline.limit_type = "range")

\* the dispatch of check_guidelines on scope, scope_filter and limit_type
CheckOne(guideline, positions, sector_map) ==
    IF guideline.scope = "position" THEN check_position_limit(guideline, positions)
    ELSE IF guideline.scope = "sector"
         THEN check_sector_limit(guideline, positions, sector_map)
    ELSE IF guideline.scope = "portfolio"
         THEN IF guideline.scope_filter = "top5"
              THEN check_top5_limit(guideline, positions)
              ELSE check_position_count(guideline, positions)
    ELSE IF guideline.scope = "asset_class"
         THEN IF guideline.scope_filter = "cash"
              THEN check_cash_minimum(guideline, positions)
              ELSE check_asset_class_range(guideline, positions)
    ELSE check_issuer_limit(guideline, positions)

\* sum(1 for r in results if r.status == status)
StatusCount(results, status) ==
    Cardinality({k \in 1..Len(results) : results[k].status = status})

\* GuidelinesService.check_guidelines
check_guidelines(guidelines, positions, sector_map) ==
    LET checked == SelectSeq(guidelines, HasCheck)
        results == [k \in 1..Len(checked) |->
                       CheckOne(checked[k], positions, sector_map)]
        compliant == StatusCount(results, "compliant")
        warning == StatusCount(results, "warning")
        breach == StatusCount(results, "breach")
    IN  [overall_status |-> IF breach > 0 THEN "breach"
                            ELSE IF warning > 0 THEN "warning"
                            ELSE "compliant",
         total_guidelines |-> Len(results),
         compliant_count |-> compliant,
         warning_count |-> warning,
         breach_count |-> breach,
         guidelines |-> results]

\* a position as check_guidelines reads it
Holding(ticker, weight) == [ticker |-> ticker, weight |-> weight]

\* weights around the 5% and 10% position limits and inside the equity range
AAAWeights == {450, 451, 500, 501, 900, 901, 1000, 1001, 4300}

\* weights that bring the sector, the top five and the equity share to their
\* limits and warning marks
BBBWeights == {0, 2250, 2500, 3500}

BNDWeights == {0, 2000}

\* cash around the 2% minimum and its warning mark
CashWeights == {199, 200, 219, 220}

\* portfolios of up to four positions; a weight of 0 is a position not held
SmallPortfolios ==
    { SelectSeq(<< Holding("AAA", a), Holding("BBB", b), Holding("BND", c),
                   Holding("CASH", d) >>, LAMBDA pos : pos.weight > 0) :
        a \in AAAWeights, b \in BBBWeights, c \in BNDWeights, d \in CashWeights }

LargeTickers ==
    << "E01", "E02", "E03", "E04", "E05", "E06", "E07", "E08", "E09",
       "E10", "E11", "E12", "E13", "E14", "E15", "E16", "E17", "E18",
       "E19", "E20", "E21", "E22", "E23", "E24", "E25", "E26", "E27",
       "E28", "E29", "E30", "E31", "E32", "E33", "E34", "E35", "E36",
       "E37", "E38", "E39", "E40", "E41", "E42", "E43", "E44", "E45",
       "E46", "E47", "E48", "E49", "E50", "E51" >>

\* position counts past the warning mark of the limit of 50 and past the
\* limit
PortfolioSizes == {46, 51}

\* a portfolio of n equal equity positions of 1.9% and the rest in cash
LargePortfolio(n) ==
    [i \in 1..n |-> Holding(LargeTickers[i], 190)]
        \o << Holding("CASH", FULL_WEIGHT - 190 * n) >>

Portfolios == SmallPortfolios \cup { LargePortfolio(n) : n \in PortfolioSizes }

\* what market_service.get_sectors returns for the tickers
SectorMaps ==
    { [AAA |-> "Technology", BBB |-> "Technology", BND |-> "Fixed Income"],
      [AAA |-> "Technology", BBB |-> "Financial Services"] }

InitGuidelines ==
    /\ histories = [t \in Stocks |-> <<>>]
    /\ weights = <<>>
    /\ result = NoCall
    /\ rng = 0
    /\ InitIdle

\* GET /{portfolio_id}/guidelines on the module's GuidelinesService(), whose
\* guidelines are DEFAULT_GUIDELINES
CheckGuidelines ==
    /\ \E positions \in Portfolios, sector_map \in SectorMaps :
          result' = [op |-> "check_guidelines",
                     positions |-> positions,
                     sector_map |-> sector_map,
                     out |-> check_guidelines(DEFAULT_GUIDELINES, positions,
                                              sector_map)]
    /\ UNCHANGED <<histories, weights, rng, calls, pc, req, loc, res>>

NextGuidelines == CheckGuidelines

SpecGuidelines == InitGuidelines /\ [][NextGuidelines]_vars

\* the upper limit of a range guideline
UpperLimit(g) == IF g.limit_value_upper # 0 THEN g.limit_value_upper ELSE 10000

\* the measured value violates the limit of the guideline
Violates(g, value) ==
    IF g.limit_type = "min_weight" THEN value < g.limit_value
    ELSE IF g.limit_type = "range"
         THEN value < g.limit_value \/ value > UpperLimit(g)
    ELSE value > g.limit_value

\* the distance of the measured value to the limit, to the nearer limit of a
\* range; negative on a violation
Headroom(g, value) ==
    IF g.limit_type = "min_weight" THEN value - g.limit_value
    ELSE IF g.limit_type = "range"
         THEN Min2(value - g.limit_value, UpperLimit(g) - value)
    ELSE g.limit_value - value

\* what the headroom is a percentage of when the status is decided: the
\* limit, the width of a range
HeadroomBase(g) ==
    IF g.limit_type = "range" THEN UpperLimit(g) - g.limit_value ELSE g.limit_value

TrafficLight(g, value) ==
    IF Violates(g, value) THEN "breach"
    ELSE IF Headroom(g, value) * 100 < 10 * HeadroomBase(g) THEN "warning"
    ELSE "compliant"

\* the status of a check is the traffic light of its measured value and the
\* headroom reported is the one that decided it
StatusDecided(r) ==
    /\ r.status = TrafficLight(r.guideline, r.current_value)
    /\ r.headroom = Headroom(r.guideline, r.current_value)

\* the headroom_pct reported is, rounded to two decimals, the percentage
\* that decided the status
HeadroomPctDecided(r) ==
    r.headroom_pct = RoundDiv(Headroom(r.guideline, r.current_value) * 10000,
                              HeadroomBase(r.guideline))

\* overall_status is the worst status and the three counts add up
ReportSummary(out) ==
    LET statuses == {out.guidelines[k].status : k \in 1..Len(out.guidelines)}
    IN  /\ out.overall_status = IF "breach" \in statuses THEN "breach"
                                ELSE IF "warning" \in statuses THEN "warning"
                                ELSE "compliant"
        /\ out.compliant_count + out.warning_count + out.breach_count
              = out.total_guidelines
        /\ out.total_guidelines = Len(out.guidelines)
        /\ out.compliant_count = StatusCount(out.guidelines, "compliant")
        /\ out.warning_count = StatusCount(out.guidelines, "warning")
        /\ out.breach_count = StatusCount(out.guidelines, "breach")

\* C30: every guideline check (position, sector, top five, cash minimum,
\* position count, issuer, asset-class range) reports breach exactly when
\* the measured value violates the limit, warning exactly when it is within
\* the limit with less than 10% headroom, and compliant otherwise; the
\* headroom and headroom_pct reported are the quantities that decided the
\* status; overall_status is the worst individual status and the compliant,
\* warning and breach counts add up to total_guidelines.
C30_GuidelineTrafficLight ==
    result.op = "check_guidelines" =>
        /\ \A k \in 1..Len(result.out.guidelines) :
               /\ StatusDecided(result.out.guidelines[k])
               /\ HeadroomPctDecided(result.out.guidelines[k])
        /\ ReportSummary(result.out)

\* C30 without the headroom_pct of the asset-class range: the status and the
\* headroom of every check, the headroom_pct of every check on a single
\* limit, and the summary of the report
C30_ExceptRangeHeadroomPct ==
    result.op = "check_guidelines" =>
        /\ Len(result.out.guidelines) = Len(DEFAULT_GUIDELINES)
        /\ \A k \in 1..Len(result.out.guidelines) :
               /\ result.out.guidelines[k].guideline = DEFAULT_GUIDELINES[k]
               /\ StatusDecided(result.out.guidelines[k])
               /\ result.out.guidelines[k].guideline.limit_type # "range"
                     => HeadroomPctDecided(result.out.guidelines[k])
        /\ ReportSummary(result.out)
====
